---- MODULE Spec2Model ----
(***************************************************************************)
(* Model of the docker-notify update detection and scheduling engine.      *)
(*                                                                         *)
(*   Spec          the periodic-task Scheduler (package scheduler) driven  *)
(*                 by the robfig/cron run loop, scheduled firings and      *)
(*                 concurrent API callers.                                 *)
(*   SpecCheckMany Client.CheckMultipleImages: the goroutine fan-out, the  *)
(*                 semaphore channel and the result collection loop.       *)
(*   SpecCompare   Client.compareVersions on triples of version strings.   *)
(*   SpecLatest    Client.findLatestTag on tag lists and filters.          *)
(*   SpecCheckOne  Client.CheckImageUpdate: limiter, token, tags, verdict. *)
(*   SpecParse     docker.ParseImageReference on short strings.            *)
(*   SpecImageCheck Service.performImageCheck, the image-check handler.    *)
(*   SpecLocks     the lock protocol of package scheduler; SpecLocksFair   *)
(*                 adds the fairness of its callers.                       *)
(*   SpecLimiter   the rate limiter built by NewClient.                    *)
(***************************************************************************)
EXTENDS Integers, Sequences, FiniteSets, TLC

(***************************************************************************)
(* Bounds of the model.                                                    *)
(***************************************************************************)
MaxProcs == 2       \* goroutines running a firing or a RunTask call at once
MaxObjs == 1        \* Task structs allocated by AddTask over a behaviour
MaxEntries == 2     \* cron entry ids handed out over a behaviour
MaxRuns == 2        \* executions admitted over a behaviour
MaxImages == 4      \* size of a CheckMultipleImages batch
MaxConc == 3        \* largest maxConcurrency tried

VARIABLES
    tasks,          \* Scheduler.tasks: task id -> *Task (index into heap)
    heap,           \* the Task structs ever allocated, by address
    cronEntries,    \* cron.Cron entries: registrations the run loop fires
    cronNextID,     \* cron.Cron.nextID
    cronStarted,    \* cron.Cron.running
    busy,           \* entry ids whose SkipIfStillRunning token is taken
    updating,       \* UpdateTaskSchedule between cron.Remove and cron.AddFunc
    procs,          \* goroutines executing a firing or a RunTask call
    now,            \* wall clock: the next reading of time.Now()
    ret,            \* the error of the Scheduler call that returned last
    handlerCalls,   \* per Task struct: invocations of task.Handler
    foundClear,     \* per Task struct: guard evaluations that found IsRunning clear
    cm,             \* state of one CheckMultipleImages call
    cmp,            \* three version strings and compareVersions of each pair
    lt,             \* one findLatestTag call: tags, currentTag, filters, result
    co,             \* state of one CheckImageUpdate call
    ref,            \* one ParseImageReference call: image and *ImageReference
    svc,            \* one Service.performImageCheck run
    lim,            \* the rate.Limiter of the registry client and its waiters
    lk              \* Scheduler.mu, one Task.mu and the callers using them

vars == <<tasks, heap, cronEntries, cronNextID, cronStarted, busy, updating,
          procs, now, ret, handlerCalls, foundClear, cm, cmp, lt, co, ref, svc,
          lim, lk>>

clientVars == <<cmp, lt, co, ref, svc, lim, lk>>

schedVars == <<tasks, heap, cronEntries, cronNextID, cronStarted, busy,
               updating, procs, now, ret, handlerCalls, foundClear>>

(***************************************************************************)
(* Task ids, schedules and handlers.                                       *)
(***************************************************************************)
TaskIds == {"image-check", "cleanup"}

Schedules == {"@every 1h", "@every 2h", "bad"}

\* cron.ParseStandard: the expressions that parse.
ParseStandard(schedule) == schedule \in {"@every 1h", "@every 2h"}

\* The handler registered by Service.setupScheduledTasks drops its ctx
\* argument and runs performImageCheck on the service context.
HandlerUsesCtx(id) == id # "image-check"

Procs == 1..MaxProcs

NoUpdate == [active |-> FALSE, id |-> "", schedule |-> ""]

IdleProc == [pc |-> "idle", kind |-> "none", task |-> 0, entry |-> 0,
             start |-> 0, err |-> FALSE, ctxDone |-> FALSE]

NoRet == "nil"

Range(f) == {f[x] : x \in DOMAIN f}

\* Task{ID: id, Name: name, Schedule: schedule, Handler: handler}
NewTask(id, schedule, entryID) ==
    [ID |-> id, Schedule |-> schedule, LastRun |-> 0, RunCount |-> 0,
     ErrorCount |-> 0, IsRunning |-> FALSE, cronEntryID |-> entryID]

\* The lowest goroutine slot that is free.
FreeProc(p) ==
    /\ procs[p].pc = "idle"
    /\ \A q \in Procs : q < p => procs[q].pc # "idle"

\* No CheckMultipleImages call has been made.
CMIdle == [pc |-> "none", n |-> 0, maxConcurrency |-> 0, sem |-> 0,
           g |-> <<>>, out |-> <<>>, results |-> <<>>, i |-> 0,
           updateInfos |-> <<>>, errors |-> <<>>,
           verdicts |-> <<>>, retErr |-> FALSE]

(***************************************************************************)
(* NewScheduler                                                            *)
(***************************************************************************)
InitService ==
    /\ tasks = <<>>
    /\ heap = <<>>
    /\ cronEntries = {}
    /\ cronNextID = 0
    /\ cronStarted = FALSE
    /\ busy = {}
    /\ updating = NoUpdate
    /\ procs = [p \in Procs |-> IdleProc]
    /\ now = 1
    /\ ret = NoRet
    /\ handlerCalls = <<>>
    /\ foundClear = <<>>
    /\ cm = CMIdle

\* No call of the registry client has been made.
NoCall == [pc |-> "none"]

Init ==
    /\ InitService
    /\ cmp = NoCall
    /\ lt = NoCall
    /\ co = NoCall
    /\ ref = NoCall
    /\ svc = NoCall
    /\ lim = NoCall
    /\ lk = NoCall

(***************************************************************************)
(* Scheduler.AddTask: under s.mu.                                          *)
(***************************************************************************)
\* Variant: the job is handed to cron before the id and the schedule are
\* checked, so a rejected call has used up an entry id.
AddTaskFailAfterAddFunc(err) ==
    /\ cronNextID < MaxEntries
    /\ ret' = err
    /\ cronNextID' = cronNextID + 1
    /\ UNCHANGED <<tasks, heap, cronEntries, handlerCalls, foundClear>>

\* return fmt.Errorf(...) before anything is created.
AddTaskFail(err) ==
    /\ ret' = err
    /\ UNCHANGED <<tasks, heap, cronEntries, cronNextID, handlerCalls,
                   foundClear>>

AddTask(id, schedule) ==
    /\ ~updating.active
    /\ IF id \in DOMAIN tasks
       THEN AddTaskFail("already exists")
       ELSE IF ~ParseStandard(schedule)
       THEN AddTaskFail("invalid schedule format")
       ELSE /\ Len(heap) < MaxObjs
            /\ cronNextID < MaxEntries
            /\ cronNextID' = cronNextID + 1
            /\ cronEntries' = cronEntries \cup
                   {[id |-> cronNextID', obj |-> Len(heap) + 1,
                     schedule |-> schedule]}
            /\ heap' = Append(heap, NewTask(id, schedule, cronNextID'))
            /\ handlerCalls' = Append(handlerCalls, 0)
            /\ foundClear' = Append(foundClear, 0)
            /\ tasks' = [i \in DOMAIN tasks \cup {id} |->
                            IF i = id THEN Len(heap) + 1 ELSE tasks[i]]
            /\ ret' = "nil"
    /\ UNCHANGED <<cronStarted, busy, updating, procs, now, cm, clientVars>>

(***************************************************************************)
(* Scheduler.RemoveTask: under s.mu.                                       *)
(***************************************************************************)
\* Variant: the task leaves the map and its entry stays in cron.
RemoveTaskKeepsEntry(id) ==
    /\ ~updating.active
    /\ IF id \notin DOMAIN tasks
       THEN /\ ret' = "not found"
            /\ UNCHANGED tasks
       ELSE /\ tasks' = [i \in DOMAIN tasks \ {id} |-> tasks[i]]
            /\ ret' = "nil"
    /\ UNCHANGED <<heap, cronEntries, cronNextID, cronStarted, busy, updating,
                   procs, now, handlerCalls, foundClear, cm, clientVars>>

RemoveTask(id) ==
    /\ ~updating.active
    /\ IF id \notin DOMAIN tasks
       THEN /\ ret' = "not found"
            /\ UNCHANGED <<tasks, cronEntries>>
       ELSE /\ cronEntries' = {e \in cronEntries :
                                  e.id # heap[tasks[id]].cronEntryID}
            /\ tasks' = [i \in DOMAIN tasks \ {id} |-> tasks[i]]
            /\ ret' = "nil"
    /\ UNCHANGED <<heap, cronNextID, cronStarted, busy, updating, procs, now,
                   handlerCalls, foundClear, cm, clientVars>>

(***************************************************************************)
(* Scheduler.Start                                                         *)
(***************************************************************************)
Start ==
    /\ ~cronStarted
    /\ cronStarted' = TRUE
    /\ UNCHANGED <<tasks, heap, cronEntries, cronNextID, busy, updating,
                   procs, now, ret, handlerCalls, foundClear, cm, clientVars>>

(***************************************************************************)
(* Scheduler.UpdateTaskSchedule: under s.mu from the lookup to the return. *)
(* The cron run loop is another goroutine: it handles the Remove message,  *)
(* then any timer that is due, then the AddFunc message.                   *)
(***************************************************************************)
UpdateTaskScheduleBegin(id, newSchedule) ==
    /\ ~updating.active
    /\ IF id \notin DOMAIN tasks
       THEN /\ ret' = "not found"
            /\ UNCHANGED <<cronEntries, updating>>
       ELSE IF ~ParseStandard(newSchedule)
       THEN /\ ret' = "invalid schedule format"
            /\ UNCHANGED <<cronEntries, updating>>
       ELSE /\ cronNextID < MaxEntries
            /\ cronEntries' = {e \in cronEntries :
                                  e.id # heap[tasks[id]].cronEntryID}
            /\ updating' = [active |-> TRUE, id |-> id,
                            schedule |-> newSchedule]
            /\ UNCHANGED ret
    /\ UNCHANGED <<tasks, heap, cronNextID, cronStarted, busy, procs, now,
                   handlerCalls, foundClear, cm, clientVars>>

UpdateTaskScheduleFinish ==
    /\ updating.active
    /\ cronNextID' = cronNextID + 1
    /\ cronEntries' = cronEntries \cup
           {[id |-> cronNextID', obj |-> tasks[updating.id],
             schedule |-> updating.schedule]}
    /\ heap' = [heap EXCEPT ![tasks[updating.id]].Schedule = updating.schedule,
                            ![tasks[updating.id]].cronEntryID = cronNextID']
    /\ updating' = NoUpdate
    /\ ret' = "nil"
    /\ UNCHANGED <<tasks, cronStarted, busy, procs, now, handlerCalls,
                   foundClear, cm, clientVars>>

(***************************************************************************)
(* The cron run loop starts the job of an entry that is due, in a new      *)
(* goroutine.                                                              *)
(***************************************************************************)
Fire(p, e) ==
    /\ cronStarted
    /\ e \in cronEntries
    /\ FreeProc(p)
    /\ procs' = [procs EXCEPT ![p] = [IdleProc EXCEPT !.pc = "launched",
                                         !.kind = "scheduled",
                                         !.task = e.obj, !.entry = e.id]]
    /\ UNCHANGED <<tasks, heap, cronEntries, cronNextID, cronStarted, busy,
                   updating, now, ret, handlerCalls, foundClear, cm, clientVars>>

\* cron.SkipIfStillRunning: one token per registered job.
ChainEnter(p) ==
    /\ procs[p].pc = "launched"
    /\ IF procs[p].entry \in busy
       THEN /\ procs' = [procs EXCEPT ![p] = IdleProc]
            /\ UNCHANGED busy
       ELSE /\ busy' = busy \cup {procs[p].entry}
            /\ procs' = [procs EXCEPT ![p].pc = "guard"]
    /\ UNCHANGED <<tasks, heap, cronEntries, cronNextID, cronStarted,
                   updating, now, ret, handlerCalls, foundClear, cm, clientVars>>

ChainExit(p) ==
    /\ procs[p].pc = "chainExit"
    /\ busy' = busy \ {procs[p].entry}
    /\ procs' = [procs EXCEPT ![p] = IdleProc]
    /\ UNCHANGED <<tasks, heap, cronEntries, cronNextID, cronStarted,
                   updating, now, ret, handlerCalls, foundClear, cm, clientVars>>

(***************************************************************************)
(* The isRunning guard: task.mu.Lock(); if task.IsRunning {...};           *)
(* task.IsRunning = true; task.mu.Unlock().                                *)
(***************************************************************************)
\* Variant: the guard admits without looking at the flag.
GuardBlockedNoCheck(o) == FALSE

GuardBlocked(o) == heap[o].IsRunning

\* The guard found IsRunning clear: set it and go on to the handler.
Admit(p) ==
    /\ now <= MaxRuns
    /\ heap' = [heap EXCEPT ![procs[p].task].IsRunning = TRUE]
    /\ procs' = [procs EXCEPT ![p].pc = "handler", ![p].start = now]
    /\ now' = now + 1
    /\ foundClear' = [foundClear EXCEPT ![procs[p].task] = @ + 1]
    /\ handlerCalls' = [handlerCalls EXCEPT ![procs[p].task] = @ + 1]
    /\ UNCHANGED ret

\* Variant: a skipped firing is counted as a run of the task.
FiringSkipCounted(p) ==
    /\ procs' = [procs EXCEPT ![p].pc = "chainExit"]
    /\ heap' = [heap EXCEPT ![procs[p].task].RunCount = @ + 1]
    /\ UNCHANGED <<foundClear, handlerCalls, ret, now>>

\* wrapTaskHandler: "Task is already running, skipping".
FiringSkip(p) ==
    /\ procs' = [procs EXCEPT ![p].pc = "chainExit"]
    /\ UNCHANGED <<heap, foundClear, handlerCalls, ret, now>>

\* Variant: the deferred clear is registered before the check, so a
\* rejected call clears the flag of the execution in progress.
RunTaskRejectClears(p) ==
    /\ procs' = [procs EXCEPT ![p] = IdleProc]
    /\ ret' = "already running"
    /\ heap' = [heap EXCEPT ![procs[p].task].IsRunning = FALSE]
    /\ UNCHANGED <<foundClear, handlerCalls, now>>

\* RunTask: "task %s is already running".
RunTaskReject(p) ==
    /\ procs' = [procs EXCEPT ![p] = IdleProc]
    /\ ret' = "already running"
    /\ UNCHANGED <<heap, foundClear, handlerCalls, now>>

FiringGuard(p) ==
    /\ procs[p].pc = "guard"
    /\ procs[p].kind = "scheduled"
    /\ IF GuardBlocked(procs[p].task) THEN FiringSkip(p) ELSE Admit(p)
    /\ UNCHANGED <<tasks, cronEntries, cronNextID, cronStarted, busy,
                   updating, cm, clientVars>>

RunTaskGuard(p) ==
    /\ procs[p].pc = "guard"
    /\ procs[p].kind = "manual"
    /\ IF GuardBlocked(procs[p].task) THEN RunTaskReject(p) ELSE Admit(p)
    /\ UNCHANGED <<tasks, cronEntries, cronNextID, cronStarted, busy,
                   updating, cm, clientVars>>

(***************************************************************************)
(* Scheduler.RunTask: the lookup under s.mu.RLock.                         *)
(***************************************************************************)
RunTaskLookup(p, id) ==
    /\ ~updating.active
    /\ FreeProc(p)
    /\ IF id \notin DOMAIN tasks
       THEN /\ ret' = "not found"
            /\ UNCHANGED procs
       ELSE /\ procs' = [procs EXCEPT ![p] = [IdleProc EXCEPT !.pc = "guard",
                                                 !.kind = "manual",
                                                 !.task = tasks[id]]]
            /\ UNCHANGED ret
    /\ UNCHANGED <<tasks, heap, cronEntries, cronNextID, cronStarted, busy,
                   updating, now, handlerCalls, foundClear, cm, clientVars>>

(***************************************************************************)
(* The handler call.  A scheduled firing passes a context with a 30 minute *)
(* deadline; RunTask passes the caller's context.                          *)
(***************************************************************************)
CtxTimeout(p) ==
    /\ procs[p].pc = "handler"
    /\ procs[p].kind = "scheduled"
    /\ ~procs[p].ctxDone
    /\ procs' = [procs EXCEPT ![p].ctxDone = TRUE]
    /\ UNCHANGED <<tasks, heap, cronEntries, cronNextID, cronStarted, busy,
                   updating, now, ret, handlerCalls, foundClear, cm, clientVars>>

\* What task.Handler(ctx) can return: a handler that watches its context
\* returns the context's error once the deadline has passed.
HandlerOutcomes(p) ==
    IF procs[p].ctxDone /\ HandlerUsesCtx(heap[procs[p].task].ID)
    THEN {TRUE}
    ELSE BOOLEAN

HandlerReturn(p, err) ==
    /\ procs[p].pc = "handler"
    /\ err \in HandlerOutcomes(p)
    /\ procs' = [procs EXCEPT ![p].pc = "stats", ![p].err = err]
    /\ UNCHANGED <<tasks, heap, cronEntries, cronNextID, cronStarted, busy,
                   updating, now, ret, handlerCalls, foundClear, cm, clientVars>>

\* Variant: a run that succeeds is not counted.
UpdateStatsFailuresOnly(t, start, err) ==
    [t EXCEPT !.LastRun = start,
              !.RunCount = IF err THEN @ + 1 ELSE @,
              !.ErrorCount = IF err THEN @ + 1 ELSE @]

\* task.mu.Lock(); LastRun = startTime; RunCount++; if err != nil
\* { ErrorCount++ }; task.mu.Unlock()
UpdateStats(t, start, err) ==
    [t EXCEPT !.LastRun = start,
              !.RunCount = @ + 1,
              !.ErrorCount = IF err THEN @ + 1 ELSE @]

Stats(p) ==
    /\ procs[p].pc = "stats"
    /\ heap' = [heap EXCEPT ![procs[p].task] =
                   UpdateStats(@, procs[p].start, procs[p].err)]
    /\ procs' = [procs EXCEPT ![p].pc = "clear"]
    /\ UNCHANGED <<tasks, cronEntries, cronNextID, cronStarted, busy,
                   updating, now, ret, handlerCalls, foundClear, cm, clientVars>>

\* The deferred task.mu.Lock(); task.IsRunning = false; task.mu.Unlock().
ClearRunning(p) ==
    /\ procs[p].pc = "clear"
    /\ heap' = [heap EXCEPT ![procs[p].task].IsRunning = FALSE]
    /\ IF procs[p].kind = "scheduled"
       THEN /\ procs' = [procs EXCEPT ![p].pc = "chainExit"]
            /\ UNCHANGED ret
       ELSE /\ procs' = [procs EXCEPT ![p] = IdleProc]
            /\ ret' = IF procs[p].err THEN "handler error" ELSE "nil"
    /\ UNCHANGED <<tasks, cronEntries, cronNextID, cronStarted, busy,
                   updating, now, handlerCalls, foundClear, cm, clientVars>>

(***************************************************************************)
(* Scheduler.Health: the entries are read from cron without s.mu, the      *)
(* tasks under s.mu.RLock and each task's counters under its own lock.     *)
(***************************************************************************)
\* Variant: a task counts as failing as soon as one run has failed.
ConsistentlyFailingAnyError(t) == t.ErrorCount > 0

\* task.RunCount > 0 && task.ErrorCount == task.RunCount
ConsistentlyFailing(t) == t.RunCount > 0 /\ t.ErrorCount = t.RunCount

Health ==
    /\ IF cronEntries = {}
       THEN ret' = "no tasks scheduled"
       ELSE /\ ~updating.active
            /\ ret' = IF \E id \in DOMAIN tasks :
                             ConsistentlyFailing(heap[tasks[id]])
                      THEN "consistently failing"
                      ELSE "nil"
    /\ UNCHANGED <<tasks, heap, cronEntries, cronNextID, cronStarted, busy,
                   updating, procs, now, handlerCalls, foundClear, cm, clientVars>>

(***************************************************************************)
(* Scheduler.GetTask: the lookup under s.mu.RLock, then the copy of the    *)
(* task's fields under task.mu.RLock.  The TaskStats returned is the Task  *)
(* as it stands in the state in which GetTaskRead is taken.                *)
(***************************************************************************)
GetTaskLookup(p, id) ==
    /\ ~updating.active
    /\ FreeProc(p)
    /\ IF id \notin DOMAIN tasks
       THEN /\ ret' = "not found"
            /\ UNCHANGED procs
       ELSE /\ procs' = [procs EXCEPT ![p] = [IdleProc EXCEPT !.pc = "snapshot",
                                                 !.kind = "reader",
                                                 !.task = tasks[id]]]
            /\ UNCHANGED ret
    /\ UNCHANGED <<tasks, heap, cronEntries, cronNextID, cronStarted, busy,
                   updating, now, handlerCalls, foundClear, cm, clientVars>>

\* TaskStats{RunCount: task.RunCount, ..., IsRunning: task.IsRunning}
TaskStats(o) == heap[o]

GetTaskRead(p) ==
    /\ procs[p].pc = "snapshot"
    /\ procs' = [procs EXCEPT ![p] = IdleProc]
    /\ ret' = "nil"
    /\ UNCHANGED <<tasks, heap, cronEntries, cronNextID, cronStarted, busy,
                   updating, now, handlerCalls, foundClear, cm, clientVars>>

Next ==
    \/ \E id \in TaskIds, schedule \in Schedules : AddTask(id, schedule)
    \/ \E id \in TaskIds : RemoveTask(id)
    \/ Start
    \/ \E id \in TaskIds, schedule \in Schedules :
           UpdateTaskScheduleBegin(id, schedule)
    \/ UpdateTaskScheduleFinish
    \/ \E p \in Procs, e \in cronEntries : Fire(p, e)
    \/ \E p \in Procs : ChainEnter(p)
    \/ \E p \in Procs : ChainExit(p)
    \/ \E p \in Procs : FiringGuard(p)
    \/ \E p \in Procs, id \in TaskIds : RunTaskLookup(p, id)
    \/ \E p \in Procs : RunTaskGuard(p)
    \/ \E p \in Procs : CtxTimeout(p)
    \/ \E p \in Procs, err \in BOOLEAN : HandlerReturn(p, err)
    \/ \E p \in Procs : Stats(p)
    \/ \E p \in Procs : ClearRunning(p)
    \/ Health
    \/ \E p \in Procs, id \in TaskIds : GetTaskLookup(p, id)
    \/ \E p \in Procs : GetTaskRead(p)

Spec == Init /\ [][Next]_vars

TypeOK ==
    /\ DOMAIN tasks \subseteq TaskIds
    /\ \A id \in DOMAIN tasks : tasks[id] \in 1..Len(heap)
    /\ Len(heap) <= MaxObjs
    /\ cronNextID \in 0..MaxEntries
    /\ now \in 1..(MaxRuns + 1)

(***************************************************************************)
(* Client.CheckMultipleImages(ctx, images, maxConcurrency).                *)
(*   cm.g[k]     where the goroutine of images[k] stands                   *)
(*   cm.out[k]   what CheckImageUpdate returned for images[k]              *)
(*   cm.sem      number of elements in the channel sem                     *)
(*   cm.results  the channel results                                       *)
(***************************************************************************)
Images == 1..cm.n

\* len(images) == 0 returns (nil, nil); otherwise the channels are made and
\* one goroutine per image is launched.
CheckMultipleImages(n, maxConcurrency) ==
    /\ cm.pc = "none"
    /\ cm' = IF n = 0
             THEN [CMIdle EXCEPT !.pc = "returned",
                                 !.maxConcurrency = maxConcurrency]
             ELSE [CMIdle EXCEPT !.pc = "collect", !.n = n,
                                 !.maxConcurrency = maxConcurrency,
                                 !.g = [k \in 1..n |-> "acquire"],
                                 !.out = [k \in 1..n |-> "none"]]
    /\ UNCHANGED <<schedVars, clientVars>>

\* Variant: the semaphore admits one more than its capacity.
SemHasRoomOffByOne(c) == c.sem <= c.maxConcurrency

\* A send on sem goes through while the buffer has room; a channel of
\* capacity 0 has no receiver at this point and blocks.
SemHasRoom(c) == c.sem < c.maxConcurrency

\* sem <- struct{}{}
Acquire(k) ==
    /\ k \in Images
    /\ cm.g[k] = "acquire"
    /\ SemHasRoom(cm)
    /\ cm' = [cm EXCEPT !.sem = @ + 1, !.g[k] = "check"]
    /\ UNCHANGED <<schedVars, clientVars>>

\* CheckImageUpdate returns (updateInfo, nil) or (nil, err), and the
\* outcome is sent on results, whose buffer holds len(images) elements.
CheckReturn(k, failed) ==
    /\ k \in Images
    /\ cm.g[k] = "check"
    /\ cm' = [cm EXCEPT !.g[k] = "release",
                        !.out[k] = IF failed THEN "err" ELSE "ok",
                        !.results = Append(@, [image |-> k, err |-> failed])]
    /\ UNCHANGED <<schedVars, clientVars>>

\* defer func() { <-sem }()
Release(k) ==
    /\ k \in Images
    /\ cm.g[k] = "release"
    /\ cm.sem > 0
    /\ cm' = [cm EXCEPT !.sem = @ - 1, !.g[k] = "done"]
    /\ UNCHANGED <<schedVars, clientVars>>

\* Variant: the collection loop stops one result short.
CollectDoneOneShort(c) == c.i >= c.n - 1

\* for i := 0; i < len(images); i++
CollectDone(c) == c.i >= c.n

\* result := <-results, then the append to errors or to updateInfos.
Collect ==
    /\ cm.pc = "collect"
    /\ ~CollectDone(cm)
    /\ cm.results # <<>>
    /\ cm' = [cm EXCEPT
                 !.results = Tail(@),
                 !.i = @ + 1,
                 !.errors = IF Head(cm.results).err
                            THEN Append(@, Head(cm.results).image) ELSE @,
                 !.updateInfos = IF Head(cm.results).err
                                 THEN @
                                 ELSE Append(@, Head(cm.results).image)]
    /\ UNCHANGED <<schedVars, clientVars>>

\* Variant: any failed check fails the batch.
AllChecksFailedAnyError(c) == Len(c.errors) > 0

\* len(errors) > 0 && len(updateInfos) == 0
AllChecksFailed(c) == Len(c.errors) > 0 /\ Len(c.updateInfos) = 0

CheckMultipleImagesReturn ==
    /\ cm.pc = "collect"
    /\ CollectDone(cm)
    /\ cm' = [cm EXCEPT !.pc = "returned",
                        !.retErr = AllChecksFailed(cm),
                        !.verdicts = IF AllChecksFailed(cm)
                                     THEN <<>> ELSE cm.updateInfos]
    /\ UNCHANGED <<schedVars, clientVars>>

NextCheckMany ==
    \/ \E n \in 0..MaxImages, maxConcurrency \in 0..MaxConc :
           CheckMultipleImages(n, maxConcurrency)
    \/ \E k \in 1..MaxImages : Acquire(k)
    \/ \E k \in 1..MaxImages, failed \in BOOLEAN : CheckReturn(k, failed)
    \/ \E k \in 1..MaxImages : Release(k)
    \/ Collect
    \/ CheckMultipleImagesReturn

SpecCheckMany == Init /\ [][NextCheckMany]_vars

(***************************************************************************)
(* Properties of the Scheduler.                                            *)
(***************************************************************************)
TaskObjs == 1..Len(heap)

\* An execution of a task: from the guard that set IsRunning to the
\* deferred clear.
Active(p) == procs[p].pc \in {"handler", "stats", "clear"}

Executions(o) == {p \in Procs : Active(p) /\ procs[p].task = o}

\* C1: for every Task, whatever the interleaving of scheduled firings,
\* RunTask calls and UpdateTaskSchedule calls, at most one execution of its
\* handler is active at any time, and IsRunning is set exactly while one is.
C1_MutualExclusion ==
    \A o \in TaskObjs :
        /\ Cardinality(Executions(o)) <= 1
        /\ heap[o].IsRunning <=> Executions(o) # {}

\* An execution started by a registration that a schedule update has since
\* replaced is running while a firing of the new registration is at the
\* guard.
C1_Witness ==
    \E p, q \in Procs :
        /\ procs[p].pc = "handler" /\ procs[p].kind = "scheduled"
        /\ procs[q].pc = "guard" /\ procs[q].kind = "scheduled"
        /\ procs[q].task = procs[p].task
        /\ procs[q].entry # procs[p].entry
        /\ procs[p].entry \notin {e.id : e \in cronEntries}

\* C2: a RunTask call that reaches the guard while an execution of the task
\* is active returns the already-running error, invokes no handler and
\* leaves every field of the task, IsRunning included, as it was.
C2_RunTaskRejected ==
    [][\A p \in Procs :
          (/\ procs[p].pc = "guard"
           /\ procs[p].kind = "manual"
           /\ heap[procs[p].task].IsRunning
           /\ procs'[p] # procs[p])
          => (/\ ret' = "already running"
              /\ procs'[p] = IdleProc
              /\ heap' = heap
              /\ handlerCalls' = handlerCalls)]_vars

C2_Witness ==
    /\ ret = "already running"
    /\ \E p \in Procs : procs[p].pc = "handler" /\ heap[procs[p].task].IsRunning

\* C3: a scheduled firing that finds IsRunning set (or the token of its own
\* registration taken) is dropped: it changes no field of the task, its
\* goroutine ends without ever reaching the handler, and the handler has
\* been invoked no more often than the guard found IsRunning clear.
C3_SkippedNotQueued ==
    /\ [](\A o \in TaskObjs : handlerCalls[o] <= foundClear[o])
    /\ [][\A p \in Procs :
            /\ (/\ procs[p].pc = "guard"
                /\ procs[p].kind = "scheduled"
                /\ heap[procs[p].task].IsRunning
                /\ procs'[p] # procs[p])
               => (/\ procs'[p].pc = "chainExit"
                   /\ heap' = heap
                   /\ handlerCalls' = handlerCalls)
            /\ (procs[p].pc = "launched" /\ procs[p].entry \in busy
                /\ procs'[p] # procs[p])
               => (procs'[p] = IdleProc /\ heap' = heap
                   /\ handlerCalls' = handlerCalls)
            /\ (procs[p].pc = "chainExit" /\ procs'[p] # procs[p])
               => procs'[p] = IdleProc]_vars

\* A firing that the guard skipped: it never took a start time.
C3_Witness ==
    \E p \in Procs :
        /\ procs[p].pc = "chainExit"
        /\ procs[p].start = 0
        /\ heap[procs[p].task].IsRunning

\* C7: a scheduled run whose 30 minute deadline passed while the handler
\* was running ends as a task error.
C7_TimeoutCountsAsError ==
    \A p \in Procs :
        (/\ procs[p].kind = "scheduled"
         /\ procs[p].ctxDone
         /\ procs[p].pc \in {"stats", "clear", "chainExit"})
        => procs[p].err

\* C8: AddTask with a registered id or an invalid schedule returns an error
\* and changes neither the task map, nor any Task, nor the cron entries.
C8_AddTaskFailureNoEffect ==
    [][\A id \in TaskIds, schedule \in Schedules :
          (AddTask(id, schedule)
           /\ (id \in DOMAIN tasks \/ ~ParseStandard(schedule)))
          => (/\ ret' \in {"already exists", "invalid schedule format"}
              /\ UNCHANGED <<tasks, heap, cronEntries, cronNextID, busy,
                             procs>>)]_vars

C8_Witness ==
    /\ ret = "already exists"
    /\ DOMAIN tasks # {}
    /\ \A id \in DOMAIN tasks :
           \E e \in cronEntries : e.id = heap[tasks[id]].cronEntryID

\* C9: no execution of a handler begins for a Task that RemoveTask has
\* taken out of the task map.
C9_NoExecutionAfterRemove ==
    [][\A p \in Procs :
          (procs[p].pc # "handler" /\ procs'[p].pc = "handler")
          => procs'[p].task \in Range(tasks)]_vars

\* C10: every registered task has exactly one cron entry in every state.
C10_ExactlyOneRegistration ==
    \A id \in DOMAIN tasks :
        Cardinality({e \in cronEntries : e.obj = tasks[id]}) = 1

\* C11: a Health call made while no other Scheduler call is in progress
\* reports an error iff no task is registered or some registered task has
\* RunCount > 0 and ErrorCount = RunCount.
C11_HealthVerdict ==
    [][(Health /\ ~updating.active)
       => (ret' # "nil"
           <=> (\/ DOMAIN tasks = {}
                \/ \E id \in DOMAIN tasks :
                       /\ heap[tasks[id]].RunCount > 0
                       /\ heap[tasks[id]].ErrorCount
                              = heap[tasks[id]].RunCount))]_vars

\* Health has reported a registered task whose runs have all failed.
C11_Witness ==
    /\ ret = "consistently failing"
    /\ \E id \in DOMAIN tasks :
           /\ heap[tasks[id]].RunCount > 0
           /\ heap[tasks[id]].ErrorCount = heap[tasks[id]].RunCount

\* The counters of the run in progress are recorded while IsRunning is
\* still set.
Torn(o) ==
    /\ heap[o].IsRunning
    /\ \E q \in Procs : procs[q].task = o /\ procs[q].pc = "clear"

\* C12: no TaskStats returned by GetTask shows IsRunning set together with
\* the counters and LastRun of that same run.
C12_NoTornSnapshot ==
    [][\A p \in Procs :
          (procs[p].pc = "snapshot" /\ procs'[p] = IdleProc)
          => ~Torn(procs[p].task)]_vars

(***************************************************************************)
(* Properties of CheckMultipleImages.                                      *)
(***************************************************************************)
InProgress == {k \in Images : cm.g[k] = "check"}

Failed == {k \in Images : cm.out[k] = "err"}

SeqToSet(q) == {q[x] : x \in 1..Len(q)}

\* C4: with maxConcurrency >= 1 at most maxConcurrency CheckImageUpdate
\* calls are in progress at a time; every check in progress holds a slot of
\* the semaphore, which it gives back after its outcome, failed or not.
C4_BoundedConcurrency ==
    cm.maxConcurrency >= 1 =>
        /\ Cardinality(InProgress) <= cm.maxConcurrency
        /\ cm.sem = Cardinality({k \in Images :
                                    cm.g[k] \in {"check", "release"}})
        /\ cm.sem <= cm.maxConcurrency

\* The semaphore is full, a goroutine waits for a slot, and a failed check
\* has already given its slot back.
C4_Witness ==
    /\ cm.maxConcurrency >= 1
    /\ Cardinality(InProgress) = cm.maxConcurrency
    /\ \E k \in Images : cm.g[k] = "acquire"
    /\ \E k \in Images : cm.g[k] = "done" /\ cm.out[k] = "err"

\* C5: a call on a non-empty batch returns an error iff every check
\* failed; otherwise it returns one verdict per check that succeeded.
C5_FailsOnlyIfAllFailed ==
    (cm.pc = "returned" /\ cm.n > 0) =>
        /\ cm.retErr <=> Failed = Images
        /\ ~cm.retErr => Len(cm.verdicts) = cm.n - Cardinality(Failed)

\* A batch of at least three images in which exactly one check failed.
C5_Witness ==
    /\ cm.pc = "returned"
    /\ cm.n >= 3
    /\ Cardinality(Failed) = 1
    /\ ~cm.retErr
    /\ Len(cm.verdicts) = cm.n - 1

\* C6: when the call returns, every image's outcome has been produced and
\* collected exactly once, failed checks included, and no goroutine of the
\* batch is still in its check or waiting for the semaphore.
C6_AllOutcomesCollected ==
    (cm.pc = "returned" /\ cm.n > 0) =>
        /\ \A k \in Images : cm.out[k] # "none"
        /\ \A k \in Images : cm.g[k] \in {"release", "done"}
        /\ Len(cm.updateInfos) + Len(cm.errors) = cm.n
        /\ SeqToSet(cm.updateInfos) = Images \ Failed
        /\ SeqToSet(cm.errors) = Failed
        /\ cm.results = <<>>

\* The call has returned with failed and successful checks collected while
\* a goroutine has yet to run its deferred release.
C6_Witness ==
    /\ cm.pc = "returned"
    /\ Failed # {}
    /\ Failed # Images
    /\ \E k \in Images : cm.g[k] = "release"

(***************************************************************************)
(* Go strings.  A string is a TLA+ string; Chr(s, i) is its i-th byte.     *)
(* Alphabet lists the bytes that occur in the inputs in ascending byte     *)
(* value, so that Code orders them as Go's < on strings does.              *)
(***************************************************************************)
Alphabet == "+-./0123456789:@RVabcdefghijklmnopqrstuvwxyz"

Chr(s, i) == SubSeq(s, i, i)

Code(c) == CHOOSE i \in 1..Len(Alphabet) : Chr(Alphabet, i) = c

Chars == {Chr(Alphabet, i) : i \in 1..Len(Alphabet)}

Digits == {"0", "1", "2", "3", "4", "5", "6", "7", "8", "9"}

\* version1 < version2 on strings: byte-wise lexicographic order
StrLess(s, t) ==
    \E i \in 1..Len(t) :
        /\ i - 1 <= Len(s)
        /\ SubSeq(s, 1, i - 1) = SubSeq(t, 1, i - 1)
        /\ \/ i > Len(s)
           \/ Code(Chr(s, i)) < Code(Chr(t, i))

\* strings.ToLower on the bytes of Alphabet
RECURSIVE ToLower(_)
ToLower(s) ==
    IF s = "" THEN ""
    ELSE LET c == Chr(s, 1)
             l == IF c = "R" THEN "r" ELSE IF c = "V" THEN "v" ELSE c
         IN  l \o ToLower(SubSeq(s, 2, Len(s)))

\* strings.Contains(s, substr)
Contains(s, substr) ==
    \E i \in 1..(Len(s) - Len(substr) + 1) :
        SubSeq(s, i, i + Len(substr) - 1) = substr

\* strings.TrimPrefix(s, prefix)
TrimPrefix(s, prefix) ==
    IF Len(s) >= Len(prefix) /\ SubSeq(s, 1, Len(prefix)) = prefix
    THEN SubSeq(s, Len(prefix) + 1, Len(s))
    ELSE s

\* The end of the longest run of bytes of class that starts at s[i]: what a
\* greedy class+ consumes when the byte after it is not in the class.
RECURSIVE Span(_, _, _)
Span(s, i, class) ==
    IF i <= Len(s) /\ Chr(s, i) \in class THEN Span(s, i + 1, class) ELSE i

(***************************************************************************)
(* strconv.Atoi.  int is 32 bits wide in the linux/arm/v7 image and 64     *)
(* bits wide in the amd64 and arm64 images; a decimal outside its range is *)
(* an error.  Numbers are kept as decimals without leading zeros.          *)
(***************************************************************************)
IntSizes == {32, 64}

MaxInt(bits) == IF bits = 32 THEN "2147483647" ELSE "9223372036854775807"

RECURSIVE StripZeros(_)
StripZeros(d) ==
    IF Len(d) > 1 /\ Chr(d, 1) = "0" THEN StripZeros(SubSeq(d, 2, Len(d)))
    ELSE d

\* x < y on the ints that the decimals x and y denote
NumLess(x, y) == Len(x) < Len(y) \/ (Len(x) = Len(y) /\ StrLess(x, y))

Atoi(d, bits) ==
    IF NumLess(MaxInt(bits), StripZeros(d))
    THEN [err |-> TRUE, n |-> "0"]
    ELSE [err |-> FALSE, n |-> StripZeros(d)]

(***************************************************************************)
(* The version regular expressions.                                        *)
(*   `^(\d+)\.(\d+)\.(\d+)(?:-([a-zA-Z0-9\-\.]+))?(?:\+([a-zA-Z0-9\-\.]+))?$`*)
(* and, for withPre = FALSE, the same without the pre-release group.       *)
(* Each class ends where the next literal begins, so the match, when there *)
(* is one, is the greedy one.                                              *)
(***************************************************************************)
IdentChars == Chars \ {"+", "/", ":", "@"}

NoMatch == [ok |-> FALSE]

\* Where an optional group (?:c([a-zA-Z0-9\-\.]+))? that is tried at s[i]
\* ends: behind its identifier when s[i] is c and an identifier follows, at
\* i when the group matches nothing.
OptionalEnd(s, i, c, allowed) ==
    IF /\ allowed
       /\ i <= Len(s)
       /\ Chr(s, i) = c
       /\ Span(s, i + 1, IdentChars) > i + 1
    THEN Span(s, i + 1, IdentChars)
    ELSE i

\* $ and the submatches: e1, e2, e3 are the ends of the three numbers, e4
\* and e5 the ends of the pre-release and of the build group.
MatchEnd(s, e1, e2, e3, e4, e5) ==
    IF e5 = Len(s) + 1
    THEN [ok |-> TRUE,
          m1 |-> SubSeq(s, 1, e1 - 1),
          m2 |-> SubSeq(s, e1 + 1, e2 - 1),
          m3 |-> SubSeq(s, e2 + 1, e3 - 1),
          m4 |-> IF e4 > e3 THEN SubSeq(s, e3 + 1, e4 - 1) ELSE "",
          m5 |-> IF e5 > e4 THEN SubSeq(s, e4 + 1, e5 - 1) ELSE ""]
    ELSE NoMatch

\* (?:\+([a-zA-Z0-9\-\.]+))?
MatchBuild(s, e1, e2, e3, e4) ==
    MatchEnd(s, e1, e2, e3, e4, OptionalEnd(s, e4, "+", TRUE))

\* (\d+) has ended at e3; (?:-([a-zA-Z0-9\-\.]+))?
MatchPre(s, withPre, e1, e2, e3) ==
    IF e3 > e2 + 1
    THEN MatchBuild(s, e1, e2, e3, OptionalEnd(s, e3, "-", withPre))
    ELSE NoMatch

\* (\d+) has ended at e2; \.(\d+)
MatchPatch(s, withPre, e1, e2) ==
    IF e2 > e1 + 1 /\ e2 <= Len(s) /\ Chr(s, e2) = "."
    THEN MatchPre(s, withPre, e1, e2, Span(s, e2 + 1, Digits))
    ELSE NoMatch

\* (\d+) has ended at e1; \.(\d+)
MatchMinor(s, withPre, e1) ==
    IF e1 > 1 /\ e1 <= Len(s) /\ Chr(s, e1) = "."
    THEN MatchPatch(s, withPre, e1, Span(s, e1 + 1, Digits))
    ELSE NoMatch

VersionRegex(s, withPre) == MatchMinor(s, withPre, Span(s, 1, Digits))

\* the leading `v?` of semverRegex
OptionalV(s) == IF Len(s) >= 1 /\ Chr(s, 1) = "v" THEN SubSeq(s, 2, Len(s)) ELSE s

\* semverRegex.MatchString(tag)
semverRegex(tag) == VersionRegex(OptionalV(tag), TRUE).ok

(***************************************************************************)
(* Client.parseSemanticVersion and Client.compareVersions                  *)
(***************************************************************************)
VersionEqual == "Equal"
VersionOlder == "Older"
VersionNewer == "Newer"
VersionIncomparable == "Incomparable"

Nil == [nil |-> TRUE]

\* &SemanticVersion{...} once the three Atoi calls have returned
SemanticVersion(m, major, minor, patch) ==
    IF major.err \/ minor.err \/ patch.err THEN Nil
    ELSE [nil |-> FALSE, Major |-> major.n, Minor |-> minor.n,
          Patch |-> patch.n, PreRelease |-> m.m4, Build |-> m.m5]

\* matches := re.FindStringSubmatch(version) and what follows
FromSubmatch(m, bits) ==
    IF ~m.ok THEN Nil
    ELSE SemanticVersion(m, Atoi(m.m1, bits), Atoi(m.m2, bits),
                         Atoi(m.m3, bits))

parseSemanticVersion(version, bits) ==
    FromSubmatch(VersionRegex(TrimPrefix(version, "v"), TRUE), bits)

\* v1 == nil || v2 == nil: fall back to string comparison
StringFallback(version1, version2) ==
    IF StrLess(version1, version2) THEN VersionOlder
    ELSE IF StrLess(version2, version1) THEN VersionNewer
    ELSE VersionEqual

\* compareVersions once both versions are parsed
CompareParsed(version1, version2, v1, v2) ==
    IF v1.nil \/ v2.nil THEN StringFallback(version1, version2)
    ELSE IF NumLess(v1.Major, v2.Major) THEN VersionOlder
    ELSE IF NumLess(v2.Major, v1.Major) THEN VersionNewer
    ELSE IF NumLess(v1.Minor, v2.Minor) THEN VersionOlder
    ELSE IF NumLess(v2.Minor, v1.Minor) THEN VersionNewer
    ELSE IF NumLess(v1.Patch, v2.Patch) THEN VersionOlder
    ELSE IF NumLess(v2.Patch, v1.Patch) THEN VersionNewer
    ELSE IF v1.PreRelease = "" /\ v2.PreRelease # "" THEN VersionNewer
    ELSE IF v1.PreRelease # "" /\ v2.PreRelease = "" THEN VersionOlder
    ELSE IF v1.PreRelease # "" /\ v2.PreRelease # ""
            /\ StrLess(v1.PreRelease, v2.PreRelease)
         THEN VersionOlder
    ELSE IF v1.PreRelease # "" /\ v2.PreRelease # ""
            /\ StrLess(v2.PreRelease, v1.PreRelease)
         THEN VersionNewer
    ELSE VersionEqual

compareVersions(version1, version2, bits) ==
    IF version1 = version2 THEN VersionEqual
    ELSE IF version1 = "latest" \/ version2 = "latest" THEN VersionIncomparable
    ELSE CompareParsed(version1, version2,
                       parseSemanticVersion(version1, bits),
                       parseSemanticVersion(version2, bits))

(***************************************************************************)
(* compareVersions on three version strings.  Versions holds releases and  *)
(* pre-releases, v-prefixed tags, build metadata, a leading zero, numbers  *)
(* of several digits and numbers beyond the range of a 32-bit and of a     *)
(* 64-bit int; SemverVersions are those that match the grammar.            *)
(***************************************************************************)
Versions ==
    {"1.0.0", "v1.0.0", "1.0.0-beta", "1.0.0-rc1", "1.0.0+b1", "01.0.0",
     "2.0.0", "1.21.1", "1.22.0-rc1", "9.0.0", "10.0.0",
     "8999999999.0.0", "89999999999999999999.0.0", "latest", "1.0"}

SemverVersions == {t \in Versions : semverRegex(t)}

InitCompare ==
    /\ InitService
    /\ cmp \in [pc : {"input"}, a : SemverVersions, b : SemverVersions,
                c : SemverVersions, bits : IntSizes,
                ab : {""}, bc : {""}, ac : {""}]
    /\ lt = NoCall
    /\ co = NoCall
    /\ ref = NoCall
    /\ svc = NoCall
    /\ lim = NoCall
    /\ lk = NoCall

Compare ==
    /\ cmp.pc = "input"
    /\ cmp' = [cmp EXCEPT !.pc = "compared",
                          !.ab = compareVersions(cmp.a, cmp.b, cmp.bits),
                          !.bc = compareVersions(cmp.b, cmp.c, cmp.bits),
                          !.ac = compareVersions(cmp.a, cmp.c, cmp.bits)]
    /\ UNCHANGED <<schedVars, cm, lt, co, ref, svc, lim, lk>>

NextCompare == Compare

SpecCompare == InitCompare /\ [][NextCompare]_vars

\* C16: over versions that match the semantic-version grammar, Newer is
\* transitive: a newer than b and b newer than c give a newer than c.
C16_NewerTransitive ==
    (cmp.pc = "compared" /\ cmp.ab = VersionNewer /\ cmp.bc = VersionNewer)
    => cmp.ac = VersionNewer

(***************************************************************************)
(* Client.findLatestTag and the filters it applies.                        *)
(* VersionFilterConfig is [ExcludePreRelease, ExcludeWindows, OnlyStable,  *)
(* ExcludePatterns].                                                       *)
(***************************************************************************)
\* semverTags: the tags that semverRegex matches, in order
filterSemanticVersionTags(tags) == SelectSeq(tags, semverRegex)

\* re.MatchString(cleanTag) with the stable pattern (no pre-release group)
isStableSemanticVersion(tag) == VersionRegex(TrimPrefix(tag, "v"), FALSE).ok

excludePatterns(cfg) ==
    (IF cfg.ExcludePreRelease
     THEN <<"rc", "alpha", "beta", "dev", "snapshot", "nightly", "pre">>
     ELSE <<>>)
    \o (IF cfg.ExcludeWindows
        THEN <<"windows", "windowsservercore", "nanoserver", "ltsc",
               "insider">>
        ELSE <<>>)
    \o cfg.ExcludePatterns

shouldExclude(tag, cfg) ==
    \/ \E i \in 1..Len(excludePatterns(cfg)) :
           Contains(ToLower(tag), ToLower(excludePatterns(cfg)[i]))
    \/ cfg.OnlyStable /\ ~isStableSemanticVersion(tag)

filterUnwantedVersions(tags, cfg) ==
    LET keep(tag) == ~shouldExclude(tag, cfg)
    IN  SelectSeq(tags, keep)

\* highest := tags[0]; every later tag replaces it when highest compares
\* Older than the tag
RECURSIVE HighestFrom(_, _, _, _)
HighestFrom(highest, tags, i, bits) ==
    IF i > Len(tags) THEN highest
    ELSE HighestFrom(IF compareVersions(highest, tags[i], bits) = VersionOlder
                     THEN tags[i] ELSE highest,
                     tags, i + 1, bits)

findHighestSemanticVersion(tags, bits) ==
    IF Len(tags) = 0 THEN "" ELSE HighestFrom(tags[1], tags, 2, bits)

\* Variant: "latest" as current tag goes through the filters as well.
CurrentIsLatestNever(currentTag) == FALSE

\* currentTag == "latest"
CurrentIsLatest(currentTag) == currentTag = "latest"

\* findLatestTag once the tags are filtered
FromFiltered(tags, filteredTags, bits) ==
    IF Len(filteredTags) = 0
    THEN IF \E i \in 1..Len(tags) : tags[i] = "latest"
         THEN [tag |-> "latest", err |-> "nil"]
         ELSE [tag |-> tags[1], err |-> "nil"]
    ELSE [tag |-> findHighestSemanticVersion(filteredTags, bits),
          err |-> "nil"]

findLatestTag(tags, currentTag, cfg, bits) ==
    IF Len(tags) = 0 THEN [tag |-> "", err |-> "no tags available"]
    ELSE IF CurrentIsLatest(currentTag)
    THEN [tag |-> findHighestSemanticVersion(tags, bits), err |-> "nil"]
    ELSE FromFiltered(tags,
                      filterUnwantedVersions(filterSemanticVersionTags(tags),
                                             cfg),
                      bits)

(***************************************************************************)
(* One findLatestTag call.  The registry's tag list is any list of at most *)
(* MaxTags distinct tags of RegistryTags, the filters any of Configs.      *)
(***************************************************************************)
MaxTags == 3

RegistryTags ==
    {"latest", "2.0.0", "1.0.0-beta", "1.21.0", "1.21.1", "1.22.0-rc1",
     "2.0.0-ltsc", "1.3.0", "1.29999999999999999999.0"}

TagLists ==
    UNION {{q \in [1..n -> RegistryTags] :
               \A i, j \in 1..n : i # j => q[i] # q[j]} : n \in 0..MaxTags}

Configs ==
    [ExcludePreRelease : BOOLEAN, ExcludeWindows : BOOLEAN,
     OnlyStable : BOOLEAN, ExcludePatterns : {<<>>, <<"1.21">>}]

CurrentTags == {"latest", "1.21.0"}

InitLatest ==
    /\ InitService
    /\ cmp = NoCall
    /\ lt \in [pc : {"input"}, tags : TagLists, currentTag : CurrentTags,
               cfg : Configs, bits : IntSizes, latest : {NoCall}]
    /\ co = NoCall
    /\ ref = NoCall
    /\ svc = NoCall
    /\ lim = NoCall
    /\ lk = NoCall

FindLatestTag ==
    /\ lt.pc = "input"
    /\ lt' = [lt EXCEPT !.pc = "resolved",
                        !.latest = findLatestTag(lt.tags, lt.currentTag,
                                                 lt.cfg, lt.bits)]
    /\ UNCHANGED <<schedVars, cm, cmp, co, ref, svc, lim, lk>>

NextLatest == FindLatestTag

SpecLatest == InitLatest /\ [][NextLatest]_vars

\* The configuration that filters nothing.
NoFilters ==
    [ExcludePreRelease |-> FALSE, ExcludeWindows |-> FALSE,
     OnlyStable |-> FALSE, ExcludePatterns |-> <<>>]

\* C17: with "latest" as current tag the tag findLatestTag returns does not
\* depend on the VersionFilterConfig: under every configuration the result
\* is the one the configuration without filters gives on the same tag list,
\* so any two configurations give the same result.
C17_LatestIgnoresFilters ==
    (lt.pc = "resolved" /\ lt.currentTag = "latest")
    => findLatestTag(lt.tags, "latest", NoFilters, lt.bits) = lt.latest

\* With every filter switched on, "latest" as current tag resolved to a
\* pre-release the filters would have excluded.
C17_Witness ==
    /\ lt.pc = "resolved"
    /\ lt.currentTag = "latest"
    /\ lt.cfg.ExcludePreRelease /\ lt.cfg.OnlyStable /\ lt.cfg.ExcludeWindows
    /\ lt.cfg.ExcludePatterns # <<>>
    /\ lt.latest.tag = "1.22.0-rc1"
    /\ Len(lt.tags) = MaxTags

\* The tags of the list that are stable MAJOR.MINOR.PATCH versions and
\* contain none of the excluded substrings.
StableCandidates ==
    {lt.tags[i] : i \in {j \in 1..Len(lt.tags) :
        /\ isStableSemanticVersion(lt.tags[j])
        /\ \A k \in 1..Len(excludePatterns(lt.cfg)) :
               ~Contains(ToLower(lt.tags[j]),
                         ToLower(excludePatterns(lt.cfg)[k]))}}

\* C18: with OnlyStable and ExcludePreRelease set and a current tag other
\* than "latest", when the list holds a stable candidate the resolved tag is
\* a stable candidate, and no stable candidate is newer than it by its
\* major, minor and patch numbers.
C18_HighestStable ==
    (/\ lt.pc = "resolved"
     /\ lt.cfg.OnlyStable /\ lt.cfg.ExcludePreRelease
     /\ lt.currentTag # "latest"
     /\ StableCandidates # {})
    => /\ lt.latest.tag \in StableCandidates
       /\ \A t \in StableCandidates :
              (/\ ~parseSemanticVersion(lt.latest.tag, lt.bits).nil
               /\ ~parseSemanticVersion(t, lt.bits).nil)
              => compareVersions(lt.latest.tag, t, lt.bits) # VersionOlder

\* The semantic versions of the list.
SemverOfList ==
    {lt.tags[i] : i \in {j \in 1..Len(lt.tags) : semverRegex(lt.tags[j])}}

\* C19: with "latest" as current tag and a list that holds "latest" and
\* semantic versions, the resolved tag is a semantic version of the list and
\* no semantic version of the list is newer than it.
C19_LatestInListIgnored ==
    (/\ lt.pc = "resolved"
     /\ lt.currentTag = "latest"
     /\ \E i \in 1..Len(lt.tags) : lt.tags[i] = "latest"
     /\ SemverOfList # {})
    => /\ lt.latest.tag \in SemverOfList
       /\ \A t \in SemverOfList :
              compareVersions(lt.latest.tag, t, lt.bits) # VersionOlder

(***************************************************************************)
(* Client.CheckImageUpdate(ctx, registry, repository, currentTag).         *)
(*   co.ctx        "live", or when ctx was cancelled: "before" the call,   *)
(*                 "waiting" (inside rateLimiter.Wait) or "after" it       *)
(*   co.tokenReady the limiter has a token at the time of the call         *)
(*   co.requests   the HTTP requests sent, in order                        *)
(*   co.info       the *ImageUpdateInfo returned, co.err the error         *)
(***************************************************************************)
Registries == {"docker.io", "ghcr.io"}

\* NewClient: versionFilters of a client built without custom filters
DefaultFilters ==
    [ExcludePreRelease |-> TRUE, ExcludeWindows |-> TRUE,
     OnlyStable |-> TRUE, ExcludePatterns |-> <<>>]

RateLimiterCancelled == "rate limiter error: context canceled"
RequestCancelled == "failed to get image tags: context canceled"
RequestFailed == "failed to get image tags: registry error"

\* errors.Is(err, context.Canceled): every wrapping is done with %w
IsCancellation(err) == err \in {RateLimiterCancelled, RequestCancelled}

InitCheckOne ==
    /\ InitService
    /\ cmp = NoCall
    /\ lt = NoCall
    /\ ref = NoCall
    /\ co \in [pc : {"wait"}, registry : Registries,
               currentTag : CurrentTags, cfg : {DefaultFilters, NoFilters},
               bits : IntSizes, ctx : {"live", "before"},
               tokenReady : BOOLEAN, requests : {<<>>}, gotTags : {FALSE},
               tags : {<<>>}, info : {Nil}, err : {"nil"}]
    /\ svc = NoCall
    /\ lim = NoCall
    /\ lk = NoCall

ctxDone(c) == c.ctx # "live"

\* The caller cancels ctx.
CancelCtx ==
    /\ co.pc \in {"wait", "blocked", "token", "tags"}
    /\ co.ctx = "live"
    /\ co' = [co EXCEPT !.ctx = IF co.pc \in {"wait", "blocked"}
                                THEN "waiting" ELSE "after"]
    /\ UNCHANGED <<schedVars, cm, cmp, lt, ref, svc, lim, lk>>

\* getImageTags asks DockerHub for a token first, any other registry for the
\* tags at once.
AfterWait(c) ==
    [c EXCEPT !.pc = IF c.registry \in {"docker.io", "index.docker.io"}
                     THEN "token" ELSE "tags"]

\* Variant: the error of rateLimiter.Wait is dropped and the check goes on.
WaitErrorIgnored(c) == AfterWait(c)

\* return nil, fmt.Errorf("rate limiter error: %w", err)
WaitError(c) == [c EXCEPT !.pc = "returned", !.err = RateLimiterCancelled]

\* rateLimiter.Wait(ctx) up to its select: a ctx that is done is an error at
\* once, a token at hand lets the call through, otherwise Wait blocks.
RateLimiterWait ==
    /\ co.pc = "wait"
    /\ co' = IF ctxDone(co) THEN WaitError(co)
             ELSE IF co.tokenReady THEN AfterWait(co)
             ELSE [co EXCEPT !.pc = "blocked"]
    /\ UNCHANGED <<schedVars, cm, cmp, lt, ref, svc, lim, lk>>

\* The select inside Wait takes <-ctx.Done().
WaitCancelled ==
    /\ co.pc = "blocked"
    /\ ctxDone(co)
    /\ co' = WaitError(co)
    /\ UNCHANGED <<schedVars, cm, cmp, lt, ref, svc, lim, lk>>

\* The select inside Wait takes the timer.  When ctx is done as well, select
\* may still take this case.
WaitTimer ==
    /\ co.pc = "blocked"
    /\ co' = AfterWait(co)
    /\ UNCHANGED <<schedVars, cm, cmp, lt, ref, svc, lim, lk>>

\* httpClient.Do on a request whose ctx is done returns the ctx error and
\* sends nothing.
RequestRefused(c) == [c EXCEPT !.pc = "returned", !.err = RequestCancelled]

getDockerHubToken(ok) ==
    /\ co.pc = "token"
    /\ co' = IF ctxDone(co) THEN RequestRefused(co)
             ELSE IF ok
             THEN [co EXCEPT !.pc = "tags",
                             !.requests = Append(@, "token")]
             ELSE [co EXCEPT !.pc = "returned",
                             !.requests = Append(@, "token"),
                             !.err = RequestFailed]
    /\ UNCHANGED <<schedVars, cm, cmp, lt, ref, svc, lim, lk>>

\* The tags request is refused, fails, or is answered with a status other
\* than 200 or a body that does not decode.
getImageTagsError ==
    /\ co.pc = "tags"
    /\ co' = IF ctxDone(co) THEN RequestRefused(co)
             ELSE [co EXCEPT !.pc = "returned",
                             !.requests = Append(@, "tags"),
                             !.err = RequestFailed]
    /\ UNCHANGED <<schedVars, cm, cmp, lt, ref, svc, lim, lk>>

\* updateInfo as it is allocated, with AvailableTags set
UpdateInfo(c, tags) ==
    [nil |-> FALSE, CurrentTag |-> c.currentTag, LatestTag |-> "",
     HasUpdate |-> FALSE, AvailableTags |-> tags]

\* Variant: an empty tag list is reported as an error.
NoTagsFoundIsError(c, tags) ==
    [c EXCEPT !.pc = "returned", !.err = RequestFailed]

\* len(tags) == 0: return updateInfo, nil
NoTagsFound(c, tags) ==
    [c EXCEPT !.pc = "returned", !.info = UpdateInfo(c, tags)]

\* Variant: every comparison other than Equal is an update.
HasUpdateUnlessEqual(comparison) == comparison # VersionEqual

\* Variant: versions that cannot be compared count as an update too.
HasUpdateOrIncomparable(comparison) ==
    comparison \in {VersionOlder, VersionIncomparable}

\* updateInfo.HasUpdate = comparison == VersionOlder
HasUpdate(comparison) == comparison = VersionOlder

\* CheckImageUpdate once findLatestTag has returned
FromLatest(c, tags, latest) ==
    IF latest.err # "nil"
    THEN [c EXCEPT !.pc = "returned", !.info = UpdateInfo(c, tags)]
    ELSE [c EXCEPT
            !.pc = "returned",
            !.info = [UpdateInfo(c, tags) EXCEPT
                        !.LatestTag = latest.tag,
                        !.HasUpdate =
                            HasUpdate(compareVersions(c.currentTag,
                                                      latest.tag, c.bits))]]

\* CheckImageUpdate from the tags on
Verdict(c, tags) ==
    IF Len(tags) = 0 THEN NoTagsFound(c, tags)
    ELSE FromLatest(c, tags,
                    findLatestTag(tags, c.currentTag, c.cfg, c.bits))

\* The registry answers the tags request with the list tags.
getImageTags(tags) ==
    /\ co.pc = "tags"
    /\ ~ctxDone(co)
    /\ co' = Verdict([co EXCEPT !.requests = Append(@, "tags"),
                                !.gotTags = TRUE,
                                !.tags = tags], tags)
    /\ UNCHANGED <<schedVars, cm, cmp, lt, ref, svc, lim, lk>>

NextCheckOne ==
    \/ CancelCtx
    \/ RateLimiterWait
    \/ WaitCancelled
    \/ WaitTimer
    \/ \E ok \in BOOLEAN : getDockerHubToken(ok)
    \/ getImageTagsError
    \/ \E tags \in TagLists : getImageTags(tags)

SpecCheckOne == InitCheckOne /\ [][NextCheckOne]_vars

\* CheckMultipleImages, collecting a result: an error goes to errors, an
\* *ImageUpdateInfo without error to updateInfos.
Collected(info, err) ==
    IF err # "nil" THEN "errors"
    ELSE IF ~info.nil THEN "updateInfos"
    ELSE "dropped"

\* C13: a CheckImageUpdate whose ctx was cancelled before the call or while
\* it was inside rateLimiter.Wait returns no verdict but an error that wraps
\* the cancellation, and has sent neither the token request nor the tags
\* request; when ctx was cancelled before the call the error is the rate
\* limiter's.
C13_CancelledWaitFailsFast ==
    (co.pc = "returned" /\ co.ctx \in {"before", "waiting"})
    => /\ co.info.nil
       /\ IsCancellation(co.err)
       /\ co.requests = <<>>
       /\ co.ctx = "before" => co.err = RateLimiterCancelled

\* A call that found no token at the limiter was cancelled inside Wait and
\* returned the rate limiter's error without a request.
C13_Witness ==
    /\ co.pc = "returned"
    /\ co.ctx = "waiting"
    /\ ~co.tokenReady
    /\ co.err = RateLimiterCancelled
    /\ co.requests = <<>>

\* C14: every verdict over a non-empty tag list has HasUpdate set exactly
\* when compareVersions(currentTag, LatestTag) is Older.
C14_HasUpdateIffOlder ==
    (co.pc = "returned" /\ co.err = "nil" /\ Len(co.tags) > 0)
    => /\ ~co.info.nil
       /\ co.info.HasUpdate
              <=> compareVersions(co.currentTag, co.info.LatestTag, co.bits)
                      = VersionOlder

\* Scenario A: the default filters, 1.21.0 current, a newer stable tag and a
\* still newer release candidate.
C14_Witness ==
    /\ co.pc = "returned"
    /\ co.cfg = DefaultFilters
    /\ co.currentTag = "1.21.0"
    /\ co.tags = <<"1.21.0", "1.21.1", "1.22.0-rc1">>
    /\ co.info.LatestTag = "1.21.1"
    /\ co.info.HasUpdate

\* C15: when the registry answers with an empty tag list the call returns no
\* error and a verdict without update and with empty AvailableTags, which
\* CheckMultipleImages collects as a success.
C15_EmptyTagListIsSuccess ==
    (co.pc = "returned" /\ co.gotTags /\ co.tags = <<>>)
    => /\ co.err = "nil"
       /\ ~co.info.nil
       /\ ~co.info.HasUpdate
       /\ co.info.AvailableTags = <<>>
       /\ Collected(co.info, co.err) = "updateInfos"

\* DockerHub answered the token request and then the tags request with an
\* empty list.
C15_Witness ==
    /\ co.pc = "returned"
    /\ co.requests = <<"token", "tags">>
    /\ co.gotTags
    /\ co.tags = <<>>
    /\ co.err = "nil"

(***************************************************************************)
(* ParseImageReference(image) and ImageReference.IsPrivateRegistry.        *)
(* The regular expression is                                               *)
(*   ^(?:([^/]+(?:\.[^/]+)*(?::[0-9]+)?)/)?(?:([^/]+)/)?                   *)
(*    ([^:@/]+)(?::([^@]+))?(?:@(.+))?$                                    *)
(* Both optional leading groups end with "/" and hold no "/", so each is a *)
(* whole path segment; an optional group is tried present before absent.   *)
(***************************************************************************)
\* The tag group has ended at d (d = r when it matches nothing);
\* (?:@(.+))?$
MatchDigest(s, i, r, d) ==
    IF d = Len(s) + 1
    THEN [ok |-> TRUE, m3 |-> SubSeq(s, i, r - 1),
          m4 |-> IF d > r THEN SubSeq(s, r + 1, d - 1) ELSE "", m5 |-> ""]
    ELSE IF Chr(s, d) = "@" /\ d < Len(s)
    THEN [ok |-> TRUE, m3 |-> SubSeq(s, i, r - 1),
          m4 |-> IF d > r THEN SubSeq(s, r + 1, d - 1) ELSE "",
          m5 |-> SubSeq(s, d + 1, Len(s))]
    ELSE NoMatch

\* Where the optional group (?::([^@]+))? tried at s[r] ends.
TagEnd(s, r) ==
    IF r <= Len(s) /\ Chr(s, r) = ":" /\ Span(s, r + 1, Chars \ {"@"}) > r + 1
    THEN Span(s, r + 1, Chars \ {"@"})
    ELSE r

\* ([^:@/]+) has ended at r
MatchTag(s, i, r) ==
    IF r > i THEN MatchDigest(s, i, r, TagEnd(s, r)) ELSE NoMatch

\* ([^:@/]+)(?::([^@]+))?(?:@(.+))?$ from s[i] on
RepoTagDigest(s, i) == MatchTag(s, i, Span(s, i, Chars \ {":", "@", "/"}))

\* The submatches of a match m of the rest, with those of the two leading
\* groups.
Submatches(m, registry, namespace) ==
    m @@ [m1 |-> registry, m2 |-> namespace]

\* f1 and f2 are the places of the first and of the second "/" (beyond the
\* end when there is none).  The four cases are those of the two optional
\* groups, each tried present before absent.
MatchGroups(s, f1, f2) ==
    IF /\ f1 > 1 /\ f1 <= Len(s)
       /\ f2 > f1 + 1 /\ f2 <= Len(s)
       /\ RepoTagDigest(s, f2 + 1).ok
    THEN Submatches(RepoTagDigest(s, f2 + 1), SubSeq(s, 1, f1 - 1),
                    SubSeq(s, f1 + 1, f2 - 1))
    ELSE IF f1 > 1 /\ f1 <= Len(s) /\ RepoTagDigest(s, f1 + 1).ok
    THEN Submatches(RepoTagDigest(s, f1 + 1), SubSeq(s, 1, f1 - 1), "")
    ELSE IF f1 > 1 /\ f1 <= Len(s) /\ RepoTagDigest(s, f1 + 1).ok
    THEN Submatches(RepoTagDigest(s, f1 + 1), "", SubSeq(s, 1, f1 - 1))
    ELSE IF RepoTagDigest(s, 1).ok
    THEN Submatches(RepoTagDigest(s, 1), "", "")
    ELSE NoMatch

\* The second "/" is looked for behind the first.
MatchFrom(s, f1) == MatchGroups(s, f1, Span(s, f1 + 1, Chars \ {"/"}))

\* re.FindStringSubmatch(image)
ImageRegex(s) == MatchFrom(s, Span(s, 1, Chars \ {"/"}))

\* The *ImageReference built from the submatches m.
ImageReference(image, m, registry, tag) ==
    [err |-> "nil", Registry |-> registry, Namespace |-> m.m2,
     Repository |-> IF registry = "docker.io" /\ m.m2 = ""
                       /\ ~Contains(m.m3, "/")
                    THEN "library/" \o m.m3
                    ELSE IF m.m2 # "" THEN m.m2 \o "/" \o m.m3
                    ELSE m.m3,
     Tag |-> tag, Digest |-> m.m5, FullName |-> image]

\* Variant: the tag is defaulted whenever none is given, digest or not.
DefaultTagDespiteDigest(tag, digest) == IF tag = "" THEN "latest" ELSE tag

\* if tag == "" && digest == "" { tag = "latest" }
DefaultTag(tag, digest) ==
    IF tag = "" /\ digest = "" THEN "latest" ELSE tag

\* ParseImageReference once the regular expression has been applied
FromImageMatch(image, m) ==
    IF ~m.ok THEN [err |-> "invalid image reference format"]
    ELSE ImageReference(image, m,
                        IF m.m1 = "" THEN "docker.io" ELSE m.m1,
                        DefaultTag(m.m4, m.m5))

ParseImageReference(image) ==
    IF image = "" THEN [err |-> "empty image reference"]
    ELSE FromImageMatch(image, ImageRegex(image))

IsPrivateRegistry(ir) ==
    ir.Registry # "docker.io" /\ ir.Registry # "index.docker.io"

(***************************************************************************)
(* One ParseImageReference call on any string of at most MaxRefLen bytes   *)
(* of RefChars.                                                            *)
(***************************************************************************)
MaxRefLen == 5

RefChars == {"a", "5", ".", "/", ":", "@"}

RECURSIVE StringsOfLen(_)
StringsOfLen(n) ==
    IF n = 0 THEN {""}
    ELSE {s \o c : s \in StringsOfLen(n - 1), c \in RefChars}

ImageStrings == UNION {StringsOfLen(n) : n \in 0..MaxRefLen}

InitParse ==
    /\ InitService
    /\ cmp = NoCall
    /\ lt = NoCall
    /\ co = NoCall
    /\ ref \in [pc : {"input"}, image : ImageStrings, out : {NoCall}]
    /\ svc = NoCall
    /\ lim = NoCall
    /\ lk = NoCall

Parse ==
    /\ ref.pc = "input"
    /\ ref' = [ref EXCEPT !.pc = "parsed",
                          !.out = ParseImageReference(ref.image)]
    /\ UNCHANGED <<schedVars, cm, cmp, lt, co, svc, lim, lk>>

NextParse == Parse

SpecParse == InitParse /\ [][NextParse]_vars

\* The first path segment of image and what follows its "/".
FirstSegment(image) == SubSeq(image, 1, Span(image, 1, Chars \ {"/"}) - 1)
AfterFirstSegment(image) ==
    SubSeq(image, Span(image, 1, Chars \ {"/"}) + 1, Len(image))

\* image is namespace/repository or namespace/repository:tag, and the
\* namespace has neither a dot nor a colon.
NamespaceRepository(image) ==
    /\ FirstSegment(image) # ""
    /\ Len(FirstSegment(image)) < Len(image)
    /\ ~Contains(FirstSegment(image), ".")
    /\ ~Contains(FirstSegment(image), ":")
    /\ ~Contains(FirstSegment(image), "@")
    /\ ~Contains(AfterFirstSegment(image), "/")
    /\ ~Contains(AfterFirstSegment(image), "@")
    /\ RepoTagDigest(AfterFirstSegment(image), 1).ok

\* C20: an image of the form namespace/repository[:tag] whose first segment
\* has neither a dot nor a port parses to the registry docker.io, that
\* segment as namespace and namespace/repository as repository, and is not
\* on a private registry.
C20_NamespaceIsNotRegistry ==
    (ref.pc = "parsed" /\ NamespaceRepository(ref.image))
    => /\ ref.out.err = "nil"
       /\ ref.out.Registry = "docker.io"
       /\ ref.out.Namespace = FirstSegment(ref.image)
       /\ ref.out.Repository
              = FirstSegment(ref.image) \o "/"
                    \o RepoTagDigest(AfterFirstSegment(ref.image), 1).m3
       /\ ~IsPrivateRegistry(ref.out)

MaxContainers == 2

\* cont.Image of the containers the Docker daemon may report.
RunningImages == {"nginx:1.21.0", "nginx:1.21.1", "nginx", "ghcr.io/app:1.0.0"}

\* ContainerList: at most MaxContainers containers, the k-th named "/c<k>".
ContainerList ==
    UNION {[1..n -> RunningImages] : n \in 0..MaxContainers}

ContainerName(k) == TrimPrefix("/c" \o Chr(Alphabet, Code("0") + k), "/")

ContainerInfo(k, image, imageRef) ==
    [Name |-> ContainerName(k), Image |-> image,
     Registry |-> imageRef.Registry, Repository |-> imageRef.Repository,
     Tag |-> imageRef.Tag]

\* The containers of list[k..] whose image parses, in order.
RECURSIVE convertContainers(_, _)
convertContainers(list, k) ==
    IF k > Len(list) THEN <<>>
    ELSE IF ParseImageReference(list[k]).err # "nil"
    THEN convertContainers(list, k + 1)
    ELSE <<ContainerInfo(k, list[k], ParseImageReference(list[k]))>>
             \o convertContainers(list, k + 1)

matchPattern(pattern, str) == pattern = "*" \/ pattern = str

shouldExcludeImage(filters, image) ==
    \E i \in 1..Len(filters.Exclude) : matchPattern(filters.Exclude[i], image)

shouldIncludeImage(filters, image) ==
    \E i \in 1..Len(filters.Include) : matchPattern(filters.Include[i], image)

\* Whether filterContainers keeps the container.
Kept(filters, container) ==
    /\ ~shouldExcludeImage(filters, container.Image)
    /\ Len(filters.Include) > 0 => shouldIncludeImage(filters, container.Image)
    /\ ~(container.Tag = "latest" /\ ~filters.CheckLatest)
    /\ ParseImageReference(container.Image).err = "nil"
    /\ ~(IsPrivateRegistry(ParseImageReference(container.Image))
            /\ ~filters.CheckPrivate)

filterContainers(filters, containers) ==
    SelectSeq(containers, LAMBDA container : Kept(filters, container))

\* One ImageCheck per filtered container, in order.
ImageChecks(filteredContainers) ==
    [i \in 1..Len(filteredContainers) |->
        [Registry |-> filteredContainers[i].Registry,
         Repository |-> filteredContainers[i].Repository,
         Tag |-> filteredContainers[i].Tag]]

ImageFilters ==
    [Exclude : {<<>>, <<"nginx">>}, Include : {<<>>, <<"nginx:1.21.0">>},
     CheckLatest : BOOLEAN, CheckPrivate : BOOLEAN]

SvcIdle(filters) ==
    [pc |-> "start", Filters |-> filters, containers |-> <<>>,
     filteredContainers |-> <<>>, imageChecks |-> <<>>, checked |-> FALSE,
     batchErr |-> "nil", updateResults |-> <<>>, updatesFound |-> <<>>,
     err |-> "nil"]

InitImageCheck ==
    /\ InitService
    /\ cmp = NoCall
    /\ lt = NoCall
    /\ co = NoCall
    /\ ref = NoCall
    /\ svc \in {SvcIdle(filters) : filters \in ImageFilters}
    /\ lim = NoCall
    /\ lk = NoCall

\* performImageCheck after GetRunningContainers returned containers, up to
\* the call of CheckMultipleImages.
Filtered(s, containers, filteredContainers) ==
    IF Len(containers) = 0 \/ Len(filteredContainers) = 0
    THEN [s EXCEPT !.pc = "done", !.containers = containers,
                   !.filteredContainers = filteredContainers]
    ELSE [s EXCEPT !.pc = "checking", !.containers = containers,
                   !.filteredContainers = filteredContainers,
                   !.imageChecks = ImageChecks(filteredContainers)]

\* ContainerList fails, and so does the run.
GetRunningContainersError ==
    /\ svc.pc = "start"
    /\ svc' = [svc EXCEPT !.pc = "done",
                          !.err = "failed to get running containers"]
    /\ UNCHANGED <<schedVars, cm, cmp, lt, co, ref, lim, lk>>

GetRunningContainers(list) ==
    /\ svc.pc = "start"
    /\ svc' = Filtered(svc, convertContainers(list, 1),
                       filterContainers(svc.Filters,
                                        convertContainers(list, 1)))
    /\ UNCHANGED <<schedVars, cm, cmp, lt, co, ref, lim, lk>>

\* What CheckImageUpdate answers for one ImageCheck.
CheckOutcomes == {"error", "update", "current"}

ImageUpdateInfo(imageCheck, outcome) ==
    [Registry |-> imageCheck.Registry, Repository |-> imageCheck.Repository,
     CurrentTag |-> imageCheck.Tag, HasUpdate |-> outcome = "update"]

\* The collection loop of CheckMultipleImages over results received in the
\* order order[k..]: errors and updateInfos.
RECURSIVE CollectFrom(_, _, _, _)
CollectFrom(imageChecks, outcome, order, k) ==
    IF k > Len(order) THEN [errors |-> <<>>, updateInfos |-> <<>>]
    ELSE IF outcome[order[k]] = "error"
    THEN [errors |-> <<order[k]>>
                       \o CollectFrom(imageChecks, outcome, order,
                                      k + 1).errors,
          updateInfos |-> CollectFrom(imageChecks, outcome, order,
                                      k + 1).updateInfos]
    ELSE [errors |-> CollectFrom(imageChecks, outcome, order, k + 1).errors,
          updateInfos |->
              <<ImageUpdateInfo(imageChecks[order[k]], outcome[order[k]])>>
                  \o CollectFrom(imageChecks, outcome, order,
                                 k + 1).updateInfos]

\* The name of the first filtered container with the result's registry and
\* repository, "" when there is none.
RECURSIVE FirstContainerName(_, _, _)
FirstContainerName(filteredContainers, result, i) ==
    IF i > Len(filteredContainers) THEN ""
    ELSE IF filteredContainers[i].Registry = result.Registry
            /\ filteredContainers[i].Repository = result.Repository
    THEN filteredContainers[i].Name
    ELSE FirstContainerName(filteredContainers, result, i + 1)

ImageUpdate(filteredContainers, result) ==
    [Registry |-> result.Registry, Repository |-> result.Repository,
     CurrentTag |-> result.CurrentTag,
     ContainerName |-> FirstContainerName(filteredContainers, result, 1)]

RECURSIVE UpdatesFound(_, _, _)
UpdatesFound(filteredContainers, updateResults, k) ==
    IF k > Len(updateResults) THEN <<>>
    ELSE IF updateResults[k].HasUpdate
    THEN <<ImageUpdate(filteredContainers, updateResults[k])>>
             \o UpdatesFound(filteredContainers, updateResults, k + 1)
    ELSE UpdatesFound(filteredContainers, updateResults, k + 1)

\* if err != nil { log; continue with partial results }: the error of
\* CheckMultipleImages is logged and dropped.
BatchErrorLogged(batchErr) == "nil"

\* performImageCheck from the return of CheckMultipleImages to the call of
\* SendImageUpdates or the return.
Correlated(s, batchErr, updateResults, updatesFound) ==
    [s EXCEPT !.pc = IF Len(updatesFound) > 0 THEN "sending" ELSE "done",
              !.checked = TRUE, !.batchErr = batchErr,
              !.updateResults = updateResults,
              !.updatesFound = updatesFound,
              !.err = BatchErrorLogged(batchErr)]

Checked(s, c) ==
    Correlated(s,
               IF AllChecksFailed(c) THEN "all image checks failed" ELSE "nil",
               IF AllChecksFailed(c) THEN <<>> ELSE c.updateInfos,
               UpdatesFound(s.filteredContainers,
                            IF AllChecksFailed(c) THEN <<>>
                            ELSE c.updateInfos, 1))

\* CheckMultipleImages returns: every check has answered outcome[i] and the
\* results were received in the order order.
CheckMultipleImagesDone(outcome, order) ==
    /\ svc.pc = "checking"
    /\ DOMAIN outcome = 1..Len(svc.imageChecks)
    /\ DOMAIN order = 1..Len(svc.imageChecks)
    /\ {order[k] : k \in DOMAIN order} = 1..Len(svc.imageChecks)
    /\ svc' = Checked(svc, CollectFrom(svc.imageChecks, outcome, order, 1))
    /\ UNCHANGED <<schedVars, cm, cmp, lt, co, ref, lim, lk>>

SendImageUpdates(ok) ==
    /\ svc.pc = "sending"
    /\ svc' = [svc EXCEPT !.pc = "done",
                          !.err = IF ok THEN "nil"
                                  ELSE "failed to send notifications"]
    /\ UNCHANGED <<schedVars, cm, cmp, lt, co, ref, lim, lk>>

NextImageCheck ==
    \/ GetRunningContainersError
    \/ \E list \in ContainerList : GetRunningContainers(list)
    \/ \E n \in 1..MaxContainers :
           \E outcome \in [1..n -> CheckOutcomes], order \in [1..n -> 1..n] :
               CheckMultipleImagesDone(outcome, order)
    \/ \E ok \in BOOLEAN : SendImageUpdates(ok)

SpecImageCheck == InitImageCheck /\ [][NextImageCheck]_vars

\* The (Registry, Repository) pairs of a batch are pairwise different.
PairsUnique(imageChecks) ==
    \A i, j \in 1..Len(imageChecks) :
        (/\ imageChecks[i].Registry = imageChecks[j].Registry
         /\ imageChecks[i].Repository = imageChecks[j].Repository) => i = j

\* C22: every batch the image-check handler passes to CheckMultipleImages
\* holds each (registry, repository) pair at most once.
C22_BatchPairsUnique ==
    svc.pc # "none" => PairsUnique(svc.imageChecks)

\* C27: when CheckMultipleImages fails the batch because every check failed,
\* the run returns an error (which is what makes the scheduler count it).
C27_FailedBatchFailsRun ==
    (svc.pc = "done" /\ svc.batchErr # "nil") => svc.err # "nil"

(***************************************************************************)
(* The locks of package scheduler: Scheduler.mu and the mu of one Task,    *)
(* both sync.RWMutex, and the callers that take them.  A caller is a       *)
(* goroutine inside one Scheduler method or inside the wrapped handler of  *)
(* a firing.                                                               *)
(*   lk.smu, lk.tmu   the two mutexes                                      *)
(*   lk.c[c]          the method caller c is in and where it stands        *)
(*   lk.registered    whether the Task is in Scheduler.tasks               *)
(*   lk.IsRunning     Task.IsRunning                                       *)
(* sync.RWMutex: Lock takes the writers' mutex, announces itself, which    *)
(* makes later RLock calls wait, and waits for the active readers to       *)
(* leave; Unlock admits every reader that waited and then lets the next    *)
(* writer in.  cron.Cron serves AddFunc, Remove, Entry and Entries from    *)
(* its run loop, which starts jobs in goroutines of their own and takes    *)
(* none of these locks, so such a call is one step.                        *)
(***************************************************************************)
MaxCallers == 2

Callers == 1..MaxCallers

\* A sync.RWMutex: wm the writer that holds the writers' mutex, w the
\* writer that holds the lock, r the active readers, rwait the readers
\* that wait behind a writer.
RWMutex == [wm |-> 0, w |-> 0, r |-> {}, rwait |-> {}]

\* mu.RLock() called by c
RLock(mu, c) ==
    IF mu.wm # 0 THEN [mu EXCEPT !.rwait = @ \cup {c}]
    ELSE [mu EXCEPT !.r = @ \cup {c}]

\* mu.RUnlock() called by c
RUnlock(mu, c) == [mu EXCEPT !.r = @ \ {c}]

\* mu.Lock() called by c: the writers' mutex is free and c takes it.
LockAnnounce(mu, c) == [mu EXCEPT !.wm = c]

\* mu.Lock() called by c: the active readers have left.
LockAcquire(mu, c) == [mu EXCEPT !.w = c]

\* mu.Unlock()
Unlock(mu) == [mu EXCEPT !.wm = 0, !.w = 0, !.r = mu.rwait, !.rwait = {}]

IdleCaller == [op |-> "none", pc |-> "idle", phase |-> "none"]

InitLocks ==
    /\ InitService
    /\ cmp = NoCall
    /\ lt = NoCall
    /\ co = NoCall
    /\ ref = NoCall
    /\ svc = NoCall
    /\ lim = NoCall
    /\ lk = [smu |-> RWMutex, tmu |-> RWMutex,
             c |-> [c \in Callers |-> IdleCaller],
             registered |-> "never", IsRunning |-> FALSE]

Idle(c) == lk.c[c].pc = "idle"

At(c, op, pc) == lk.c[c].op = op /\ lk.c[c].pc = pc

\* The Scheduler methods that start with s.mu.Lock().
WriterOps == {"AddTask", "RemoveTask", "UpdateTaskSchedule"}

\* The Scheduler methods that start with s.mu.RLock().
ReaderOps == {"RunTask", "GetTaskStats", "GetTask"}

\* s.mu.Lock() is called.
CallWriter(c, op) ==
    /\ Idle(c)
    /\ lk' = [lk EXCEPT !.c[c] = [IdleCaller EXCEPT !.op = op,
                                                    !.pc = "sLock"]]
    /\ UNCHANGED <<schedVars, cm, cmp, lt, co, ref, svc, lim>>

\* s.mu.RLock() is called.
CallReader(c, op) ==
    /\ Idle(c)
    /\ lk' = [lk EXCEPT !.c[c] = [IdleCaller EXCEPT !.op = op,
                                                    !.pc = "sRLock"],
                        !.smu = RLock(lk.smu, c)]
    /\ UNCHANGED <<schedVars, cm, cmp, lt, co, ref, svc, lim>>

\* Health: s.cron.Entries(), the return when there is none, s.mu.RLock().
CallHealth(c) ==
    /\ Idle(c)
    /\ lk' = IF lk.registered # "yes" THEN lk
             ELSE [lk EXCEPT !.c[c] = [IdleCaller EXCEPT !.op = "Health",
                                                         !.pc = "sRLock"],
                             !.smu = RLock(lk.smu, c)]
    /\ UNCHANGED <<schedVars, cm, cmp, lt, co, ref, svc, lim>>

\* The run loop starts the wrapped handler, which calls task.mu.Lock().
CallFiring(c) ==
    /\ Idle(c)
    /\ lk.registered = "yes"
    /\ lk' = [lk EXCEPT !.c[c] = [op |-> "firing", pc |-> "tLock",
                                  phase |-> "guard"]]
    /\ UNCHANGED <<schedVars, cm, cmp, lt, co, ref, svc, lim>>

\* s.mu.Lock(): the writers' mutex.
SLockAnnounce(c) ==
    /\ lk.c[c].pc = "sLock"
    /\ lk.smu.wm = 0
    /\ lk' = [lk EXCEPT !.smu = LockAnnounce(lk.smu, c)]
    /\ UNCHANGED <<schedVars, cm, cmp, lt, co, ref, svc, lim>>

\* s.mu.Lock() returns.
SLockAcquire(c) ==
    /\ lk.c[c].pc = "sLock"
    /\ lk.smu.wm = c
    /\ lk.smu.w = 0
    /\ lk.smu.r = {}
    /\ lk' = [lk EXCEPT !.smu = LockAcquire(lk.smu, c)]
    /\ UNCHANGED <<schedVars, cm, cmp, lt, co, ref, svc, lim>>

\* task.mu.Lock(): the writers' mutex.
TLockAnnounce(c) ==
    /\ lk.c[c].pc = "tLock"
    /\ lk.tmu.wm = 0
    /\ lk' = [lk EXCEPT !.tmu = LockAnnounce(lk.tmu, c)]
    /\ UNCHANGED <<schedVars, cm, cmp, lt, co, ref, svc, lim>>

\* task.mu.Lock() returns.
TLockAcquire(c) ==
    /\ lk.c[c].pc = "tLock"
    /\ lk.tmu.wm = c
    /\ lk.tmu.w = 0
    /\ lk.tmu.r = {}
    /\ lk' = [lk EXCEPT !.tmu = LockAcquire(lk.tmu, c)]
    /\ UNCHANGED <<schedVars, cm, cmp, lt, co, ref, svc, lim>>

\* AddTask under s.mu, to the deferred Unlock.  The model follows one Task:
\* once it has been removed, AddTask registers another one.
AddTaskLocked(c) ==
    /\ At(c, "AddTask", "sLock")
    /\ lk.smu.w = c
    /\ lk' = [lk EXCEPT !.registered = IF @ = "never" THEN "yes" ELSE @,
                        !.smu = Unlock(lk.smu),
                        !.c[c] = IdleCaller]
    /\ UNCHANGED <<schedVars, cm, cmp, lt, co, ref, svc, lim>>

\* RemoveTask under s.mu, to the deferred Unlock.
RemoveTaskLocked(c) ==
    /\ At(c, "RemoveTask", "sLock")
    /\ lk.smu.w = c
    /\ lk' = [lk EXCEPT !.registered = IF @ = "yes" THEN "removed" ELSE @,
                        !.smu = Unlock(lk.smu),
                        !.c[c] = IdleCaller]
    /\ UNCHANGED <<schedVars, cm, cmp, lt, co, ref, svc, lim>>

\* UpdateTaskSchedule under s.mu: the lookup, ParseStandard, cron.Remove
\* and cron.AddFunc, up to the assignments to the Task.
UpdateTaskScheduleLocked(c, valid) ==
    /\ At(c, "UpdateTaskSchedule", "sLock")
    /\ lk.smu.w = c
    /\ lk' = IF lk.registered = "yes" /\ valid
             THEN [lk EXCEPT !.c[c].pc = "write"]
             ELSE [lk EXCEPT !.smu = Unlock(lk.smu), !.c[c] = IdleCaller]
    /\ UNCHANGED <<schedVars, cm, cmp, lt, co, ref, svc, lim>>

\* task.Schedule = newSchedule; task.cronEntryID = entryID; and the
\* deferred s.mu.Unlock().
UpdateTaskScheduleWrite(c) ==
    /\ At(c, "UpdateTaskSchedule", "write")
    /\ lk' = [lk EXCEPT !.smu = Unlock(lk.smu),
                        !.c[c] = IdleCaller]
    /\ UNCHANGED <<schedVars, cm, cmp, lt, co, ref, svc, lim>>

\* RunTask: task, exists := s.tasks[id]; s.mu.RUnlock(); the return when
\* there is no such task; task.mu.Lock().
RunTaskLooked(c) ==
    /\ At(c, "RunTask", "sRLock")
    /\ c \in lk.smu.r
    /\ lk' = [lk EXCEPT !.smu = RUnlock(lk.smu, c),
                        !.c[c] = IF lk.registered = "yes"
                                 THEN [@ EXCEPT !.pc = "tLock",
                                                !.phase = "guard"]
                                 ELSE IdleCaller]
    /\ UNCHANGED <<schedVars, cm, cmp, lt, co, ref, svc, lim>>

\* GetTask: the lookup, s.mu.RUnlock(), the return when there is no such
\* task, task.mu.RLock().
GetTaskLooked(c) ==
    /\ At(c, "GetTask", "sRLock")
    /\ c \in lk.smu.r
    /\ lk' = IF lk.registered = "yes"
             THEN [lk EXCEPT !.smu = RUnlock(lk.smu, c),
                             !.tmu = RLock(lk.tmu, c),
                             !.c[c].pc = "tRLock"]
             ELSE [lk EXCEPT !.smu = RUnlock(lk.smu, c),
                             !.c[c] = IdleCaller]
    /\ UNCHANGED <<schedVars, cm, cmp, lt, co, ref, svc, lim>>

\* GetTaskStats and Health under s.mu.RLock: task.mu.RLock() for the task
\* of the map, the deferred s.mu.RUnlock() when the map is empty.
RangeTasks(c) ==
    /\ lk.c[c].op \in {"GetTaskStats", "Health"}
    /\ lk.c[c].pc = "sRLock"
    /\ c \in lk.smu.r
    /\ lk' = IF lk.registered = "yes"
             THEN [lk EXCEPT !.tmu = RLock(lk.tmu, c),
                             !.c[c].pc = "tRLock"]
             ELSE [lk EXCEPT !.smu = RUnlock(lk.smu, c),
                             !.c[c] = IdleCaller]
    /\ UNCHANGED <<schedVars, cm, cmp, lt, co, ref, svc, lim>>

\* The fields of the Task are read under task.mu.RLock (with s.cron.Entry
\* in GetTask and GetTaskStats), then task.mu.RUnlock() and, in
\* GetTaskStats and Health, the deferred s.mu.RUnlock().
ReadTask(c) ==
    /\ lk.c[c].pc = "tRLock"
    /\ c \in lk.tmu.r
    /\ lk' = [lk EXCEPT !.tmu = RUnlock(lk.tmu, c),
                        !.smu = RUnlock(lk.smu, c),
                        !.c[c] = IdleCaller]
    /\ UNCHANGED <<schedVars, cm, cmp, lt, co, ref, svc, lim>>

\* Variant: the handler is called with task.mu still held.
GuardUnlockMissing(mu) == mu

\* task.mu.Unlock() after task.IsRunning = true
GuardUnlock(mu) == Unlock(mu)

\* The isRunning guard of RunTask and of the wrapped handler, under
\* task.mu.
GuardLocked(c) ==
    /\ lk.c[c].pc = "tLock"
    /\ lk.c[c].phase = "guard"
    /\ lk.tmu.w = c
    /\ lk' = IF lk.IsRunning
             THEN [lk EXCEPT !.tmu = Unlock(lk.tmu), !.c[c] = IdleCaller]
             ELSE [lk EXCEPT !.IsRunning = TRUE,
                             !.tmu = GuardUnlock(lk.tmu),
                             !.c[c].pc = "handler"]
    /\ UNCHANGED <<schedVars, cm, cmp, lt, co, ref, svc, lim>>

\* task.Handler returns; task.mu.Lock() for the counters.
HandlerReturned(c) ==
    /\ lk.c[c].pc = "handler"
    /\ lk' = [lk EXCEPT !.c[c].pc = "tLock", !.c[c].phase = "stats"]
    /\ UNCHANGED <<schedVars, cm, cmp, lt, co, ref, svc, lim>>

\* LastRun, RunCount and ErrorCount are written under task.mu; then the
\* deferred function calls task.mu.Lock().
StatsLocked(c) ==
    /\ lk.c[c].pc = "tLock"
    /\ lk.c[c].phase = "stats"
    /\ lk.tmu.w = c
    /\ lk' = [lk EXCEPT !.tmu = Unlock(lk.tmu),
                        !.c[c].phase = "clear"]
    /\ UNCHANGED <<schedVars, cm, cmp, lt, co, ref, svc, lim>>

\* The deferred task.IsRunning = false under task.mu, and the return.
ClearLocked(c) ==
    /\ lk.c[c].pc = "tLock"
    /\ lk.c[c].phase = "clear"
    /\ lk.tmu.w = c
    /\ lk' = [lk EXCEPT !.IsRunning = FALSE,
                        !.tmu = Unlock(lk.tmu),
                        !.c[c] = IdleCaller]
    /\ UNCHANGED <<schedVars, cm, cmp, lt, co, ref, svc, lim>>

\* A step of caller c inside a call, the return of a handler excepted.
Proceed(c) ==
    \/ SLockAnnounce(c)
    \/ SLockAcquire(c)
    \/ TLockAnnounce(c)
    \/ TLockAcquire(c)
    \/ AddTaskLocked(c)
    \/ RemoveTaskLocked(c)
    \/ \E valid \in BOOLEAN : UpdateTaskScheduleLocked(c, valid)
    \/ UpdateTaskScheduleWrite(c)
    \/ RunTaskLooked(c)
    \/ GetTaskLooked(c)
    \/ RangeTasks(c)
    \/ ReadTask(c)
    \/ GuardLocked(c)
    \/ StatsLocked(c)
    \/ ClearLocked(c)

NextLocks ==
    \/ \E c \in Callers, op \in WriterOps : CallWriter(c, op)
    \/ \E c \in Callers, op \in ReaderOps : CallReader(c, op)
    \/ \E c \in Callers : CallHealth(c)
    \/ \E c \in Callers : CallFiring(c)
    \/ \E c \in Callers : Proceed(c)
    \/ \E c \in Callers : HandlerReturned(c)

SpecLocks == InitLocks /\ [][NextLocks]_vars

\* A caller that can take a step again and again takes one: goroutines are
\* scheduled and sync.Mutex hands the writers' mutex to every waiter in its
\* turn.  Nothing is assumed about handlers: one may run for ever.
FairLocks ==
    \A c \in Callers : SF_vars(Proceed(c))

SpecLocksFair == SpecLocks /\ FairLocks

\* C23: no interleaving of the Scheduler's calls and of firings deadlocks:
\* every caller inside a call gets to the return of the call or into the
\* task's handler, whatever handlers are executing and however long they
\* take.
C23_CallsReturn ==
    \A c \in Callers :
        (lk.c[c].pc \notin {"idle", "handler"})
            ~> (lk.c[c].pc \in {"idle", "handler"})

\* GetTask holds task.mu for reading while another caller is inside the
\* task's handler.
C23_Witness ==
    \E a, b \in Callers :
        /\ lk.c[a].pc = "handler"
        /\ At(b, "GetTask", "tRLock")
        /\ b \in lk.tmu.r

\* A caller is writing a field of the Task: task.Schedule and
\* task.cronEntryID in UpdateTaskSchedule, IsRunning, LastRun, RunCount and
\* ErrorCount in RunTask and in the wrapped handler.
Writing(c) ==
    \/ At(c, "UpdateTaskSchedule", "write")
    \/ lk.c[c].pc = "tLock" /\ lk.tmu.w = c

\* A caller is reading the fields of the Task under task.mu.RLock.
Reading(c) == lk.c[c].pc = "tRLock" /\ c \in lk.tmu.r

\* C25: whoever writes a field of a registered task holds that task's lock,
\* and no caller reads the task under its lock meanwhile.
C25_WritesUnderTaskLock ==
    \A c \in Callers :
        Writing(c) => (lk.tmu.w = c /\ \A d \in Callers : ~Reading(d))

\* C24: every execution whose handler has returned, scheduled or on demand,
\* goes on to add 1 to RunCount, to set LastRun to the start time it took
\* before the handler, to add 1 to ErrorCount exactly when the handler
\* returned an error, and then to clear IsRunning and nothing else.
C24_ExecutionRecorded ==
    [][\A p \in Procs :
        /\ procs[p].pc = "handler" => procs'[p].pc \in {"handler", "stats"}
        /\ procs[p].pc = "stats" =>
              \/ procs'[p] = procs[p]
              \/ /\ procs'[p].pc = "clear"
                 /\ heap'[procs[p].task] =
                       [heap[procs[p].task] EXCEPT
                           !.LastRun = procs[p].start,
                           !.RunCount = @ + 1,
                           !.ErrorCount = IF procs[p].err THEN @ + 1 ELSE @]
        /\ procs[p].pc = "clear" =>
              \/ procs'[p] = procs[p]
              \/ heap'[procs[p].task] =
                     [heap[procs[p].task] EXCEPT !.IsRunning = FALSE]]_vars

\* A RunTask call whose handler failed has returned: the task shows one run,
\* one error, the start time of the run and a clear flag.
C24_Witness ==
    /\ ret = "handler error"
    /\ \E o \in 1..Len(heap) :
          /\ heap[o].RunCount = 1
          /\ heap[o].ErrorCount = 1
          /\ heap[o].LastRun = 1
          /\ ~heap[o].IsRunning
    /\ \A p \in Procs : procs[p].pc = "idle"

\* The registered tasks and the entries of cron correspond one to one.
OneToOne ==
    /\ \A id \in DOMAIN tasks :
          Cardinality({e \in cronEntries :
                          e.id = heap[tasks[id]].cronEntryID}) = 1
    /\ \A e \in cronEntries :
          \E id \in DOMAIN tasks :
              /\ tasks[id] = e.obj
              /\ heap[e.obj].cronEntryID = e.id
              /\ heap[e.obj].Schedule = e.schedule
    /\ Cardinality(cronEntries) = Cardinality(DOMAIN tasks)

\* C30: whenever no AddTask, RemoveTask or UpdateTaskSchedule call is under
\* way, every registered task's cronEntryID names exactly one entry of cron,
\* and every entry of cron is the one its registered task names, with that
\* task's current schedule.
C30_TasksMatchEntries == ~updating.active => OneToOne

\* A task whose schedule has been replaced is registered under its second
\* entry, and the call that returned last was rejected.
C30_Witness ==
    /\ ~updating.active
    /\ ret = "invalid schedule format"
    /\ \E id \in DOMAIN tasks :
          /\ heap[tasks[id]].cronEntryID = 2
          /\ heap[tasks[id]].Schedule = "@every 2h"

\* C29: a call for the current tag "latest" that returns a verdict returns
\* it without update, and "latest" compared with the tag it resolved is
\* Equal or Incomparable.
C29_LatestNeverUpdates ==
    (co.pc = "returned" /\ co.currentTag = "latest" /\ co.err = "nil")
    => /\ ~co.info.nil
       /\ ~co.info.HasUpdate
       /\ Len(co.tags) > 0 =>
              compareVersions("latest", co.info.LatestTag, co.bits)
                  \in {VersionEqual, VersionIncomparable}

\* The registry lists two releases and "latest" for an image that runs
\* "latest": the highest release is resolved and no update is reported.
C29_Witness ==
    /\ co.pc = "returned"
    /\ co.currentTag = "latest"
    /\ co.tags = <<"1.21.0", "latest", "2.0.0">>
    /\ co.info.LatestTag = "2.0.0"
    /\ ~co.info.HasUpdate

\* A step of the CheckMultipleImages call under way: of one of its
\* goroutines or of its collection loop.
CheckMultipleImagesStep ==
    \/ \E k \in 1..MaxImages : Acquire(k)
    \/ \E k \in 1..MaxImages, failed \in BOOLEAN : CheckReturn(k, failed)
    \/ \E k \in 1..MaxImages : Release(k)
    \/ Collect
    \/ CheckMultipleImagesReturn

\* C28: a CheckMultipleImages call on a non-empty batch, with any
\* maxConcurrency >= 0, that has not returned can take a step: a goroutine
\* gets its semaphore slot, a check returns, a slot is given back, a result
\* is collected or the call returns.
C28_CheckMultipleImagesProceeds ==
    (cm.pc = "collect" /\ cm.n > 0) => ENABLED CheckMultipleImagesStep

(***************************************************************************)
(* The rate limiter of the registry client,                                *)
(*   rate.NewLimiter(rate.Limit(requestsPerMinute/60), burst),             *)
(* over the first minute after NewClient, in steps of one second.          *)
(*   lim.limit    the limiter's rate, in tokens per second                 *)
(*   lim.tokens   the tokens in the bucket                                 *)
(*   lim.earned   the tokens the rate has produced so far                  *)
(*   lim.waiter   what the last Wait call that found no token has got     *)
(* requestsPerMinute/60 divides two ints, so the quotient is truncated.    *)
(***************************************************************************)
MaxBurst == 2

SecondsPerMinute == 60

\* registry.rate_limit.requests_per_minute: any positive int, 100 by
\* default.
RequestRates == {1, 30, 59, 60, 100, 120}

Min(a, b) == IF a < b THEN a ELSE b

InitLimiter ==
    /\ InitService
    /\ cmp = NoCall
    /\ lt = NoCall
    /\ co = NoCall
    /\ ref = NoCall
    /\ svc = NoCall
    /\ lim = [pc |-> "new", requestsPerMinute |-> 0, burst |-> 0,
              limit |-> 0, tokens |-> 0, earned |-> 0, sec |-> 0,
              waiter |-> "none"]
    /\ lk = NoCall

\* rate.Limit(requestsPerMinute/60)
Limit(requestsPerMinute) == requestsPerMinute \div SecondsPerMinute

NewClient(requestsPerMinute, burst) ==
    /\ lim.pc = "new"
    /\ lim' = [lim EXCEPT !.pc = "ready",
                          !.requestsPerMinute = requestsPerMinute,
                          !.burst = burst,
                          !.limit = Limit(requestsPerMinute),
                          !.tokens = burst]
    /\ UNCHANGED <<schedVars, cm, cmp, lt, co, ref, svc, lk>>

\* c.rateLimiter.Wait(ctx) with a token in the bucket.
WaitGranted ==
    /\ lim.pc = "ready"
    /\ lim.tokens > 0
    /\ lim' = [lim EXCEPT !.tokens = @ - 1, !.waiter = "granted"]
    /\ UNCHANGED <<schedVars, cm, cmp, lt, co, ref, svc, lk>>

\* c.rateLimiter.Wait(ctx) with the bucket empty: the call sleeps until the
\* rate has produced a token.  At rate 0 that takes for ever, and a limiter
\* that knows of rate 0 returns an error at once instead.
WaitEmpty(outcome) ==
    /\ lim.pc = "ready"
    /\ lim.tokens = 0
    /\ outcome \in IF lim.limit > 0 THEN {"sleeping"}
                   ELSE {"blocked", "error"}
    /\ lim' = [lim EXCEPT !.waiter = outcome]
    /\ UNCHANGED <<schedVars, cm, cmp, lt, co, ref, svc, lk>>

\* One second passes: the rate produces limit tokens, the bucket holds at
\* most burst, and a sleeping Wait takes the first token.
Tick ==
    /\ lim.pc = "ready"
    /\ lim.sec < SecondsPerMinute
    /\ lim' = [lim EXCEPT
                 !.sec = @ + 1,
                 !.earned = @ + lim.limit,
                 !.tokens = IF lim.waiter = "sleeping"
                            THEN Min(lim.burst, lim.tokens + lim.limit) - 1
                            ELSE Min(lim.burst, lim.tokens + lim.limit),
                 !.waiter = IF lim.waiter = "sleeping" THEN "granted"
                            ELSE @]
    /\ UNCHANGED <<schedVars, cm, cmp, lt, co, ref, svc, lk>>

NextLimiter ==
    \/ \E requestsPerMinute \in RequestRates, burst \in 1..MaxBurst :
           NewClient(requestsPerMinute, burst)
    \/ WaitGranted
    \/ \E outcome \in {"sleeping", "blocked", "error"} : WaitEmpty(outcome)
    \/ Tick

SpecLimiter == InitLimiter /\ [][NextLimiter]_vars

\* C26: a limiter built from requestsPerMinute >= 1 has produced
\* requestsPerMinute tokens when a minute has passed, and no Wait call that
\* found the bucket empty is left without a token to come.
C26_RefillsAtConfiguredRate ==
    lim.pc = "ready"
    => /\ lim.sec = SecondsPerMinute => lim.earned = lim.requestsPerMinute
       /\ lim.waiter \notin {"blocked", "error"}

====
